---- MODULE Spec2Model ----
(***************************************************************************)
(* PixelForge: the layer stack of a Document, the undo history, and the    *)
(* filter bank of FilterManager, as state machines over RGBA buffers.      *)
(*                                                                         *)
(* Indices are kept 0-based as in the TypeScript source (activeLayerIndex,  *)
(* currentIndex, sample indices); a TLA+ sequence s holds element i of the  *)
(* source array at s[i+1].                                                  *)
(* Canvas arithmetic is over the reals in the browser; here it is exact     *)
(* integer/rational arithmetic with the rounding of Uint8ClampedArray.      *)
(***************************************************************************)
EXTENDS Integers, Sequences, FiniteSets, TLC

VARIABLES
  documents,         \* PixelForge.documents: document id -> Document
  activeDocumentId,  \* PixelForge.activeDocumentId (0 stands for null)
  history,           \* HistoryManager.history
  currentIndex,      \* HistoryManager.currentIndex
  maxHistorySize,    \* HistoryManager.maxHistorySize
  isRecording,       \* HistoryManager.isRecording
  pendingTimers,     \* number of setTimeout callbacks of restoreState not yet run
  last,              \* the operation performed by the last step and its inputs
  opCount,           \* the number of operations performed so far
  filterLog,         \* the filter calls made so far, each with its input and output
  exported,          \* the canvas the last exportToDataURL encoded (none: <<>>)
  batchName,         \* HistoryManager._batchName (undefined: <<>>)
  events             \* EventBus.events of a bus of its own: event -> callbacks

vars == <<documents, activeDocumentId, history, currentIndex, maxHistorySize,
          isRecording, pendingTimers, last, opCount, filterLog, exported, batchName, events>>

\* the events of the bus
EventNames == {"layer:added"}

\* new EventBus(): events = new Map(), no event has a callback
NoListeners == [event \in EventNames |-> <<>>]

----------------------------------------------------------------------------
(* Bounds of the model *)

MaxLayers == 3
MaxOps == 4
MaxHistory == 2
MaxTimers == 1
MaxFilterSteps == 1
MaxInvertSteps == 2
MaxGrayscaleSteps == 2
MaxDocuments == 2
MaxW == 2
MaxH == 2

NULL == 0

LayerIds == 1..(MaxLayers + 1)

----------------------------------------------------------------------------
(* Arithmetic helpers *)

Min(a, b) == IF a < b THEN a ELSE b

Max(a, b) == IF a > b THEN a ELSE b

Abs(a) == IF a < 0 THEN -a ELSE a

\* floor(a / b) for b > 0 and any integer a
FloorDiv(a, b) == a \div b

\* a / b rounded to the nearest integer, ties to even, then clamped to 0..255:
\* the conversion a Uint8ClampedArray applies to the number a/b (b > 0)
ToUint8Clamped(a, b) ==
  LET q == a \div b
      r == a - q * b
      n == IF 2 * r < b THEN q
           ELSE IF 2 * r > b THEN q + 1
           ELSE IF q % 2 = 0 THEN q ELSE q + 1
  IN  Max(0, Min(255, n))

\* a / b rounded half up, for a >= 0 and b > 0
RoundDiv(a, b) == (2 * a + b) \div (2 * b)

----------------------------------------------------------------------------
(* Array helpers (0-based positions, as Array.prototype.splice/findIndex) *)

At(s, i) == s[i + 1]

\* s.splice(i, 1)
RemoveAt(s, i) == [k \in 1..(Len(s) - 1) |-> IF k <= i THEN s[k] ELSE s[k + 1]]

\* s.splice(i, 0, e): a start index beyond the length is clamped to the length
InsertAt(s, i, e) ==
  LET p == Min(i, Len(s))
  IN  [k \in 1..(Len(s) + 1) |->
         IF k <= p THEN s[k] ELSE IF k = p + 1 THEN e ELSE s[k - 1]]

\* s.findIndex(layer => layer.id === layerId), -1 when there is none
findIndex(ls, layerId) ==
  IF \E k \in 1..Len(ls) : ls[k].id = layerId
  THEN (CHOOSE k \in 1..Len(ls) :
          ls[k].id = layerId /\ \A j \in 1..(k - 1) : ls[j].id # layerId) - 1
  ELSE -1

----------------------------------------------------------------------------
(* The 2D canvas: an RGBA sample array and the drawing state of its context *)

\* new Uint8ClampedArray(n): n samples, all 0
ZeroData(n) == [k \in 1..n |-> 0]

\* document.createElement("canvas") with the given size: transparent black
NewCanvas(width, height) ==
  [width |-> width, height |-> height, data |-> ZeroData(width * height * 4)]

\* the drawing state of a fresh 2D context
DefaultContext == [globalAlpha |-> 100, globalCompositeOperation |-> "source-over"]

\* the values of globalCompositeOperation a 2D context accepts (those the
\* model composites); any other string, "normal" included, is not one
CompositeOperations == {"source-over", "multiply", "screen"}

\* ctx.globalAlpha = opacity / 100: a value outside [0,1] is ignored
setGlobalAlpha(ctx, opacity) ==
  IF opacity >= 0 /\ opacity <= 100
  THEN [ctx EXCEPT !.globalAlpha = opacity]
  ELSE ctx

\* ctx.globalCompositeOperation = mode: an unknown value is ignored
setGlobalCompositeOperation(ctx, mode) ==
  IF mode \in CompositeOperations
  THEN [ctx EXCEPT !.globalCompositeOperation = mode]
  ELSE ctx

\* pixel (px, py) of a canvas as <<r, g, b, a>>
PixelAt(canvas, px, py) ==
  LET idx == (py * canvas.width + px) * 4
  IN  <<canvas.data[idx + 1], canvas.data[idx + 2],
        canvas.data[idx + 3], canvas.data[idx + 4]>>

\* the separable blend function B(Cb, Cs) of the composite operation
BlendChannel(op, cb, cs) ==
  IF op = "multiply" THEN RoundDiv(cb * cs, 255)
  ELSE IF op = "screen" THEN cb + cs - RoundDiv(cb * cs, 255)
  ELSE cs

\* one source pixel composited over one destination pixel: the source colour is
\* blended with the backdrop where the backdrop is opaque, the source alpha is
\* scaled by globalAlpha, and the result is Porter-Duff source-over
CompositePixel(ctx, dpx, spx) ==
  LET sa == RoundDiv(spx[4] * ctx.globalAlpha, 100)
      da == dpx[4]
      oa255 == sa * 255 + da * (255 - sa)
      cs(i) == RoundDiv((255 - da) * spx[i]
                 + da * BlendChannel(ctx.globalCompositeOperation, dpx[i], spx[i]), 255)
      co(i) == RoundDiv(cs(i) * sa * 255 + dpx[i] * da * (255 - sa), oa255)
  IN  IF sa = 0 THEN dpx
      ELSE <<co(1), co(2), co(3), RoundDiv(oa255, 255)>>

\* ctx.drawImage(src, dx, dy) on the canvas dst: source pixels that fall
\* outside dst are clipped, destination pixels not covered are left alone
drawImage(dst, ctx, src, dx, dy) ==
  LET out(k) ==
        LET p == (k - 1) \div 4
            c == ((k - 1) % 4) + 1
            x == p % dst.width
            y == p \div dst.width
            sx == x - dx
            sy == y - dy
        IN  IF sx >= 0 /\ sx < src.width /\ sy >= 0 /\ sy < src.height
            THEN CompositePixel(ctx, PixelAt(dst, x, y), PixelAt(src, sx, sy))[c]
            ELSE dst.data[k]
  IN  [dst EXCEPT !.data = [k \in 1..Len(dst.data) |-> out(k)]]

\* ctx.fillStyle = colour; ctx.fillRect(0, 0, width, height) on a fresh canvas
fillRect(canvas, colour) ==
  [canvas EXCEPT !.data = [k \in 1..Len(canvas.data) |-> colour[((k - 1) % 4) + 1]]]

----------------------------------------------------------------------------
(* Layer *)

\* new Layer({name, width, height, isBackground})
\* canvas.width = value, canvas.height = value: the element keeps a value that
\* is not negative and takes its default size, 300 by 150, for any other
CanvasDimension(value, default) == IF value >= 0 THEN value ELSE default

NewLayer(id, width, height, isBackground) ==
  [id |-> id, visible |-> TRUE, opacity |-> 100, blendMode |-> "normal",
   isBackground |-> isBackground, x |-> 0, y |-> 0,
   canvas |-> NewCanvas(CanvasDimension(width, 300), CanvasDimension(height, 150))]

\* Layer.duplicate(): isBackground is not passed to the constructor
duplicate(layer, id) ==
  LET duplicated == NewLayer(id, layer.canvas.width, layer.canvas.height, FALSE)
  IN  [duplicated EXCEPT
         !.visible = layer.visible, !.opacity = layer.opacity,
         !.blendMode = layer.blendMode, !.x = layer.x, !.y = layer.y,
         !.canvas = drawImage(duplicated.canvas, DefaultContext, layer.canvas, 0, 0)]

\* Layer.mergeWith(otherLayer): draws otherLayer onto this layer
mergeWith(layer, otherLayer) ==
  LET ctx == setGlobalCompositeOperation(
               setGlobalAlpha(DefaultContext, otherLayer.opacity),
               otherLayer.blendMode)
  IN  [layer EXCEPT
         !.canvas = drawImage(layer.canvas, ctx, otherLayer.canvas,
                              otherLayer.x, otherLayer.y)]

\* HistoryManager.cloneLayer(layer): a copy that keeps isBackground
cloneLayer(layer, id) ==
  LET clonedLayer == NewLayer(id, layer.canvas.width, layer.canvas.height,
                              layer.isBackground)
  IN  [clonedLayer EXCEPT
         !.visible = layer.visible, !.opacity = layer.opacity,
         !.blendMode = layer.blendMode, !.x = layer.x, !.y = layer.y,
         !.canvas = drawImage(clonedLayer.canvas, DefaultContext, layer.canvas, 0, 0)]

\* Layer.generateId(): an id no layer of the stack has (the smallest one, so
\* that the model does not tell apart runs that differ only in the ids drawn)
generateId(ls) ==
  CHOOSE i \in 1..(Len(ls) + 1) :
    /\ \A k \in 1..Len(ls) : ls[k].id # i
    /\ \A j \in 1..(i - 1) : \E k \in 1..Len(ls) : ls[k].id = j

----------------------------------------------------------------------------
(* Document: the layer stack *)

White == <<255, 255, 255, 255>>

\* Document.createBackgroundLayer(): filled unless the background is transparent
createBackgroundLayer(width, height, background) ==
  LET backgroundLayer == NewLayer(1, width, height, TRUE)
  IN  IF background = "transparent"
      THEN backgroundLayer
      ELSE [backgroundLayer EXCEPT !.canvas = fillRect(backgroundLayer.canvas, White)]

\* new Document(options): layers = [], activeLayerIndex = -1, then the
\* background layer is pushed and made active
NewDocument(width, height, background) ==
  [width |-> width, height |-> height,
   layers |-> <<createBackgroundLayer(width, height, background)>>,
   activeLayerIndex |-> 0]

\* Document.addLayer(layer)
DocAddLayer(doc, layer) ==
  [doc EXCEPT !.layers = Append(doc.layers, layer),
              !.activeLayerIndex = Len(doc.layers)]

\* Document.removeLayer(layerId)
DocRemoveLayer(doc, layerId) ==
  LET index == findIndex(doc.layers, layerId)
  IN  IF index > -1 /\ ~At(doc.layers, index).isBackground
      THEN LET spliced == RemoveAt(doc.layers, index)
           IN  [doc EXCEPT
                  !.layers = spliced,
                  !.activeLayerIndex =
                     IF doc.activeLayerIndex >= Len(spliced)
                     THEN Len(spliced) - 1
                     ELSE doc.activeLayerIndex]
      ELSE doc

\* Document.moveLayer(layerId, newIndex)
DocMoveLayer(doc, layerId, newIndex) ==
  LET currentIdx == findIndex(doc.layers, layerId)
  IN  IF currentIdx > -1 /\ newIndex >= 0 /\ newIndex < Len(doc.layers)
      THEN [doc EXCEPT
              !.layers = InsertAt(RemoveAt(doc.layers, currentIdx), newIndex,
                                  At(doc.layers, currentIdx)),
              !.activeLayerIndex = newIndex]
      ELSE doc

\* Document.setActiveLayer(layerId)
DocSetActiveLayer(doc, layerId) ==
  LET index == findIndex(doc.layers, layerId)
  IN  IF index > -1 THEN [doc EXCEPT !.activeLayerIndex = index] ELSE doc

\* Document.duplicateLayer(layerId)
DocDuplicateLayer(doc, layerId) ==
  LET index == findIndex(doc.layers, layerId)
  IN  IF index > -1
      THEN DocAddLayer(doc, duplicate(At(doc.layers, index), generateId(doc.layers)))
      ELSE doc

\* mergeDown with the guard layerIndex >= 0: the bottom-most layer is spliced out
DocMergeDown_NoBottomGuard(doc, layerId) ==
  LET layerIndex == findIndex(doc.layers, layerId)
  IN  IF layerIndex > 0
      THEN LET topLayer == At(doc.layers, layerIndex)
               bottomLayer == At(doc.layers, layerIndex - 1)
               merged == [doc.layers EXCEPT ![layerIndex] = mergeWith(bottomLayer, topLayer)]
           IN  [doc EXCEPT !.layers = RemoveAt(merged, layerIndex),
                           !.activeLayerIndex = layerIndex - 1]
      ELSE IF layerIndex = 0 /\ Len(doc.layers) > 1
      THEN [doc EXCEPT !.layers = RemoveAt(doc.layers, 0), !.activeLayerIndex = 0]
      ELSE doc

\* mergeDown that leaves activeLayerIndex at the index of the removed layer
DocMergeDown_ActiveNotMoved(doc, layerId) ==
  LET layerIndex == findIndex(doc.layers, layerId)
  IN  IF layerIndex > 0
      THEN LET topLayer == At(doc.layers, layerIndex)
               bottomLayer == At(doc.layers, layerIndex - 1)
               merged == [doc.layers EXCEPT ![layerIndex] = mergeWith(bottomLayer, topLayer)]
           IN  [doc EXCEPT !.layers = RemoveAt(merged, layerIndex),
                           !.activeLayerIndex = Min(layerIndex, Len(doc.layers) - 2)]
      ELSE doc

\* Document.mergeDown(layerId)
DocMergeDown(doc, layerId) ==
  LET layerIndex == findIndex(doc.layers, layerId)
  IN  IF layerIndex > 0
      THEN LET topLayer == At(doc.layers, layerIndex)
               bottomLayer == At(doc.layers, layerIndex - 1)
               \* position layerIndex of the sequence is index layerIndex - 1
               merged == [doc.layers EXCEPT ![layerIndex] = mergeWith(bottomLayer, topLayer)]
           IN  [doc EXCEPT !.layers = RemoveAt(merged, layerIndex),
                           !.activeLayerIndex = layerIndex - 1]
      ELSE doc

\* the forEach of flattenImage: every visible layer is drawn at (0, 0) with one
\* context, whose drawing state carries over from one layer to the next
RECURSIVE FlattenDraw(_, _, _, _)
FlattenDraw(canvas, ctx, ls, k) ==
  IF k > Len(ls) THEN canvas
  ELSE IF ls[k].visible
       THEN LET c2 == setGlobalCompositeOperation(
                        setGlobalAlpha(ctx, ls[k].opacity), ls[k].blendMode)
            IN  FlattenDraw(drawImage(canvas, c2, ls[k].canvas, 0, 0), c2, ls, k + 1)
       ELSE FlattenDraw(canvas, ctx, ls, k + 1)

\* Document.flattenImage()
DocFlattenImage(doc) ==
  IF Len(doc.layers) <= 1 THEN doc
  ELSE LET flattenedLayer == NewLayer(1, doc.width, doc.height, FALSE)
       IN  [doc EXCEPT
              !.layers = <<[flattenedLayer EXCEPT
                              !.canvas = FlattenDraw(flattenedLayer.canvas,
                                           DefaultContext, doc.layers, 1)]>>,
              !.activeLayerIndex = 0]

\* exportToDataURL drawing onto a canvas it first fills with white
exportToDataURL_WhiteBackdrop(doc) ==
  FlattenDraw(fillRect(NewCanvas(doc.width, doc.height), <<255, 255, 255, 255>>),
              DefaultContext, doc.layers, 1)

\* Document.exportToDataURL(format): the temporary canvas that toDataURL
\* encodes
exportToDataURL(doc) ==
  FlattenDraw(NewCanvas(doc.width, doc.height), DefaultContext, doc.layers, 1)

\* Document.getActiveLayer(): layers[activeLayerIndex] || null
HasActiveLayer(doc) ==
  doc.activeLayerIndex >= 0 /\ doc.activeLayerIndex < Len(doc.layers)

----------------------------------------------------------------------------
(* FilterManager: the transforms. A data array holds sample i of the source at
   position i + 1; an ImageData is [width, height, data] *)

\* new ImageData(data, width, height)
ImageData(data, width, height) == [width |-> width, height |-> height, data |-> data]

\* the channel (0 = R .. 3 = A) of the sample at position k
Channel(k) == (k - 1) % 4

\* the first position of the pixel that holds position k
PixelStart(k) == k - Channel(k)

\* applyInvert with the loop stepping over every sample, alpha included
applyInvert_AlphaInverted(data) ==
  [k \in 1..Len(data) |-> 255 - data[k]]

\* FilterManager.applyInvert(data), the loop
applyInvert(data) ==
  [k \in 1..Len(data) |-> IF Channel(k) = 3 THEN data[k] ELSE 255 - data[k]]

\* applyGrayscale with the blue weight mistyped as 0.144
applyGrayscale_BlueWeight(data) ==
  [k \in 1..Len(data) |->
     IF Channel(k) = 3 THEN data[k]
     ELSE LET i == PixelStart(k)
          IN  ToUint8Clamped(299 * data[i] + 587 * data[i + 1] + 144 * data[i + 2], 1000)]

\* FilterManager.applyGrayscale(data), the loop
applyGrayscale(data) ==
  [k \in 1..Len(data) |->
     IF Channel(k) = 3 THEN data[k]
     ELSE LET i == PixelStart(k)
          IN  ToUint8Clamped(299 * data[i] + 587 * data[i + 1] + 114 * data[i + 2], 1000)]

\* FilterManager.applySepia(data), the loop
applySepia(data) ==
  [k \in 1..Len(data) |->
     LET i == PixelStart(k)
         r == data[i]
         g == data[i + 1]
         b == data[i + 2]
     IN  IF Channel(k) = 0 THEN ToUint8Clamped(393 * r + 769 * g + 189 * b, 1000)
         ELSE IF Channel(k) = 1 THEN ToUint8Clamped(349 * r + 686 * g + 168 * b, 1000)
         ELSE IF Channel(k) = 2 THEN ToUint8Clamped(272 * r + 534 * g + 131 * b, 1000)
         ELSE data[k]]

\* FilterManager.applyBrightnessContrast(data, brightness, contrast), for
\* contrast < 259:  contrastFactor * (d + brightness/100*255 - 128) + 128
\* with contrastFactor = 259*(contrast+255) / (255*(259-contrast))
applyBrightnessContrast(data, brightness, contrast) ==
  LET num == 259 * (contrast + 255)
      den == 255 * (259 - contrast)
  IN  [k \in 1..Len(data) |->
         IF Channel(k) = 3 THEN data[k]
         ELSE ToUint8Clamped(num * (20 * data[k] + 51 * brightness - 2560)
                               + 2560 * den, 20 * den)]

\* the values Math.random() takes in the model, in quarters: 0, 1/4, 3/4
RandomQuarters == <<0, 1, 3>>

\* the k-th call of Math.random() of a run that started from seed
Random(seed, k) == RandomQuarters[((seed + k) % Len(RandomQuarters)) + 1]

\* FilterManager.applyNoiseFilter(data, amount, uniform): both branches draw
\* one number per pixel and scale it to [-intensity, intensity)
applyNoiseFilter(data, amount, uniform, seed) ==
  [k \in 1..Len(data) |->
     IF Channel(k) = 3 THEN data[k]
     ELSE LET q == Random(seed, (k - 1) \div 4)
          IN  ToUint8Clamped(200 * data[k] + (q - 2) * amount * 255, 200)]

\* the loop of FilterManager.applyVintage(): sepia, written back to the array,
\* then grain = (Math.random() - 0.5) * 20 added to the stored values
applyVintageData(data, seed) ==
  LET sepia == applySepia(data)
  IN  [k \in 1..Len(data) |->
         IF Channel(k) = 3 THEN data[k]
         ELSE ToUint8Clamped(sepia[k] + (Random(seed, (k - 1) \div 4) - 2) * 5, 1)]

\* Math.max(0, Math.min(n - 1, v))
ClampCoord(v, n) == Max(0, Min(n - 1, v))

\* sum of f(t) over t in lo..hi
RECURSIVE SumOver(_, _, _)
SumOver(f, lo, hi) ==
  IF lo > hi THEN 0
  ELSE IF lo = hi THEN f[lo]
  ELSE LET mid == (lo + hi) \div 2
       IN  SumOver(f, lo, mid) + SumOver(f, mid + 1, hi)

\* a number that is NaN, or a read that gave undefined
NaN == -1

\* the tap (kx, ky) read at x + kx, y + ky without the clamp
TapPixel_Unclamped(width, height, x, y, kx, ky) == <<x + kx, y + ky>>

\* the pixel <<px, py>> that the tap (kx, ky) of a window centred on (x, y)
\* reads: the coordinates are clamped to the image
TapPixel(width, height, x, y, kx, ky) ==
  <<ClampCoord(x + kx, width), ClampCoord(y + ky, height)>>

\* idx = (py * width + px) * 4 of a pixel <<px, py>>
PixelIndex(width, pixel) == (pixel[2] * width + pixel[1]) * 4

\* the position in data of channel c of the pixel that the tap reads
TapPosition(width, height, x, y, kx, ky, c) ==
  PixelIndex(width, TapPixel(width, height, x, y, kx, ky)) + c + 1

\* data[idx]: a read outside the array gives undefined
Sample(data, position) ==
  IF position \in 1..Len(data) THEN data[position] ELSE NaN

\* every tap of a window of the given half-width, centred on every pixel of
\* the image, as <<px, py, idx + c>> for each channel c it reads
WindowReads(width, height, half, channels) ==
  LET pixels == {TapPixel(width, height, x, y, kx, ky) :
                   x \in 0..(width - 1), y \in 0..(height - 1),
                   kx \in -half..half, ky \in -half..half}
  IN  {<<pixel[1], pixel[2], PixelIndex(width, pixel) + c>> :
         pixel \in pixels, c \in channels}

\* applyConvolution for the sample at position k of the output: R, G and B are
\* the clamped sum of the taps of data times their weights, alpha is copied.
\* undefined * weight is NaN, and a NaN sum is stored as 0
ConvolutionAt(data, width, height, kernel, kernelSize, k) ==
  LET half == kernelSize \div 2
      p == (k - 1) \div 4
      x == p % width
      y == p \div width
      c == Channel(k)
      tap(t) ==
        Sample(data, TapPosition(width, height, x, y, (t % kernelSize) - half,
                                 (t \div kernelSize) - half, c))
      acc == SumOver([t \in 0..(kernelSize * kernelSize - 1) |-> tap(t) * kernel[t + 1]],
                     0, kernelSize * kernelSize - 1)
  IN  IF c = 3 THEN data[k]
      ELSE IF \E t \in 0..(kernelSize * kernelSize - 1) : tap(t) = NaN THEN 0
      ELSE ToUint8Clamped(acc, 1)

\* a convolution that writes each sample into the buffer it reads from: the
\* samples from position k on are computed from a buffer whose earlier
\* samples are already replaced
RECURSIVE ConvolveInPlace(_, _, _, _, _, _)
ConvolveInPlace(buffer, width, height, kernel, kernelSize, k) ==
  IF k > Len(buffer) THEN buffer
  ELSE ConvolveInPlace([buffer EXCEPT
                          ![k] = ConvolutionAt(buffer, width, height, kernel,
                                               kernelSize, k)],
                       width, height, kernel, kernelSize, k + 1)

\* applyConvolution without the separate output array
applyConvolution_InPlace(imageData, kernel, kernelSize) ==
  ImageData(ConvolveInPlace(imageData.data, imageData.width, imageData.height,
                            kernel, kernelSize, 1),
            imageData.width, imageData.height)

\* applyConvolution returning its output with width and height exchanged
applyConvolution_Transposed(imageData, kernel, kernelSize) ==
  LET data == imageData.data
      width == imageData.width
      height == imageData.height
      output == [k \in 1..Len(data) |->
                   ConvolutionAt(data, width, height, kernel, kernelSize, k)]
  IN  ImageData(output, height, width)

\* FilterManager.applyConvolution(imageData, kernel, kernelSize): every sample
\* of a new output array is computed from imageData.data
applyConvolution(imageData, kernel, kernelSize) ==
  LET data == imageData.data
      width == imageData.width
      height == imageData.height
      output == [k \in 1..Len(data) |->
                   ConvolutionAt(data, width, height, kernel, kernelSize, k)]
  IN  ImageData(output, width, height)

SharpenKernel == <<0, -1, 0, -1, 5, -1, 0, -1, 0>>

EmbossKernel == <<-2, -1, 0, -1, 1, 1, 0, 1, 2>>

EdgeDetectKernel == <<0, 1, 0, 1, -4, 1, 0, 1, 0>>

\* FilterManager.applySharpenFilter(imageData)
applySharpenFilter(imageData) ==
  applyConvolution(imageData, SharpenKernel, 3)

\* FilterManager.applyEmbossFilter(imageData)
applyEmbossFilter(imageData) ==
  applyConvolution(imageData, EmbossKernel, 3)

\* FilterManager.applyEdgeDetectFilter(imageData)
applyEdgeDetectFilter(imageData) ==
  applyConvolution(imageData, EdgeDetectKernel, 3)

\* 100 * exp(-(x*x) / (2 * sigma * sigma)) with sigma = radius / 3, rounded,
\* for the integer radii 1, 2, 3 and 5 and |x| <= radius
GaussianWeight(radius, x) ==
  LET d == Abs(x)
  IN  IF d = 0 THEN 100
      ELSE IF radius = 1 THEN 1
      ELSE IF radius = 2 THEN (IF d = 1 THEN 32 ELSE 1)
      ELSE IF radius = 3 THEN (IF d = 1 THEN 61 ELSE IF d = 2 THEN 14 ELSE 1)
      ELSE (IF d = 1 THEN 84 ELSE IF d = 2 THEN 49 ELSE IF d = 3 THEN 20
            ELSE IF d = 4 THEN 6 ELSE 1)

\* FilterManager.generateGaussianKernel(radius), for an integer radius >= 0:
\* size = 2 * radius + 1. The weights are kept as numerators over their common
\* sum. For radius 0, sigma is 0 and the single weight is exp(-0/0) = NaN
generateGaussianKernel(radius) ==
  IF radius = 0 THEN <<NaN>>
  ELSE [i \in 1..(2 * radius + 1) |-> GaussianWeight(radius, i - 1 - radius)]

\* the weight that the taps k in -half..half of one axis put on coordinate p
\* when the window is centred on v: the taps whose clamped coordinate is p
AxisWeight(n, v, half, w, p) ==
  SumOver([k \in -half..half |-> IF ClampCoord(v + k, n) = p THEN w[k + half + 1] ELSE 0],
          -half, half)

\* applyBlur for the sample at position k of the output: the sum over the taps
\* of data times weight, divided by the weight summed over the taps. The double
\* loop over (ky, kx) adds data[TapPosition(..)] * kernel[ky + half] *
\* kernel[kx + half]; the sum is taken here pixel by pixel, each with the weight
\* of the taps that read it. A NaN weight makes every sum NaN, which a
\* Uint8ClampedArray stores as 0
BlurAt(data, width, height, gaussianKernel, k) ==
  LET kernelSize == Len(gaussianKernel)
      half == kernelSize \div 2
      kernelSum == SumOver(gaussianKernel, 1, kernelSize)
      totalWeight == kernelSum * kernelSum
      p == (k - 1) \div 4
      c == Channel(k)
      wx == [q \in 0..(width - 1) |->
               AxisWeight(width, p % width, half, gaussianKernel, q)]
      wy == [q \in 0..(height - 1) |->
               AxisWeight(height, p \div width, half, gaussianKernel, q)]
      acc == SumOver([q \in 0..(width * height - 1) |->
                        data[4 * q + c + 1] * wy[q \div width] * wx[q % width]],
                     0, width * height - 1)
  IN  IF gaussianKernel[1] = NaN THEN 0 ELSE ToUint8Clamped(acc, totalWeight)

\* FilterManager.applyBlur(imageData, radius): all four channels of a new
\* output array, every sample computed from imageData.data
applyBlur(imageData, radius) ==
  LET data == imageData.data
      width == imageData.width
      height == imageData.height
      gaussianKernel == generateGaussianKernel(radius)
      output == [k \in 1..Len(data) |->
                   BlurAt(data, width, height, gaussianKernel, k)]
  IN  ImageData(output, width, height)

\* the element at index floor(n / 2) of the values vs[1..n] sorted ascending;
\* sort puts the undefined values last, and an undefined median is stored as 0
MedianOf(vs) ==
  LET n == Len(vs)
      m == n \div 2
      defined == {t \in 1..n : vs[t] # NaN}
  IN  IF Cardinality(defined) <= m THEN 0
      ELSE CHOOSE v \in {vs[t] : t \in defined} :
             /\ Cardinality({t \in defined : vs[t] < v}) <= m
             /\ Cardinality({t \in defined : vs[t] <= v}) > m

\* applyMedianFilter for the sample at position k of the output: the median
\* of the taps of data for R, G and B, alpha copied
MedianAt(data, width, height, kernelSize, k) ==
  LET half == kernelSize \div 2
      side == 2 * half + 1
      p == (k - 1) \div 4
      c == Channel(k)
      values ==
        [t \in 1..(side * side) |->
           Sample(data, TapPosition(width, height, p % width, p \div width,
                                    ((t - 1) % side) - half,
                                    ((t - 1) \div side) - half, c))]
  IN  IF c = 3 THEN data[k] ELSE MedianOf(values)

\* FilterManager.applyMedianFilter(imageData, kernelSize): every sample of a
\* new output array is computed from imageData.data
applyMedianFilter(imageData, kernelSize) ==
  LET data == imageData.data
      width == imageData.width
      height == imageData.height
      output == [k \in 1..Len(data) |->
                   MedianAt(data, width, height, kernelSize, k)]
  IN  ImageData(output, width, height)

\* how many taps k in -radius..radius of one axis read coordinate p when the
\* window is centred on v
AxisCount(n, v, radius, p) ==
  Cardinality({k \in -radius..radius : ClampCoord(v + k, n) = p})

\* applyOilPaintingFilter for the sample at position k of the output: the
\* average, over the taps of data in the fullest intensity bucket, of the
\* channel; alpha copied. The double loop over (ky, kx) updates the bucket of
\* the pixel each tap reads; the buckets are filled here pixel by pixel, each
\* counted once per tap that reads it
OilPaintingAt(data, width, height, radius, intensityLevels, k) ==
  LET pixels == 0..(width * height - 1)
      q == (k - 1) \div 4
      c == Channel(k)
      \* Math.floor((((r + g + b) / 3) * (intensityLevels - 1)) / 255) per pixel
      intensity == [p \in pixels |->
                      ((data[4 * p + 1] + data[4 * p + 2] + data[4 * p + 3])
                         * (intensityLevels - 1)) \div (3 * 255)]
      cx == [p \in 0..(width - 1) |-> AxisCount(width, q % width, radius, p)]
      cy == [p \in 0..(height - 1) |-> AxisCount(height, q \div width, radius, p)]
      \* how many taps of the window of pixel q read pixel p
      taps == [p \in pixels |-> cy[p \div width] * cx[p % width]]
      intensityCount(i) ==
        SumOver([p \in pixels |-> IF intensity[p] = i THEN taps[p] ELSE 0],
                0, width * height - 1)
      \* the first bucket with the highest count; a bucket no pixel falls in
      \* has count 0 and never wins
      used == {intensity[p] : p \in pixels}
      maxIndex ==
        CHOOSE i \in used :
          /\ \A j \in used : intensityCount(j) <= intensityCount(i)
          /\ \A j \in used : j < i => intensityCount(j) < intensityCount(i)
      avg == SumOver([p \in pixels |->
                        IF intensity[p] = maxIndex
                        THEN taps[p] * data[4 * p + c + 1] ELSE 0],
                     0, width * height - 1)
  IN  IF c = 3 THEN data[k]
      ELSE ToUint8Clamped(avg, intensityCount(maxIndex))

\* FilterManager.applyOilPaintingFilter(imageData, radius, intensityLevels):
\* every sample of a new output array is computed from imageData.data
applyOilPaintingFilter(imageData, radius, intensityLevels) ==
  LET data == imageData.data
      width == imageData.width
      height == imageData.height
      output == [k \in 1..Len(data) |->
                   OilPaintingAt(data, width, height, radius, intensityLevels, k)]
  IN  ImageData(output, width, height)

\* the greatest common divisor of two naturals, not both 0
RECURSIVE GCD(_, _)
GCD(a, b) == IF b = 0 THEN a ELSE GCD(b, a % b)

\* a - b * trunc(a / b) for b > 0: the JavaScript remainder a % b, whose sign is
\* the sign of a
JsRem(a, b) == IF a >= 0 THEN a % b ELSE -((-a) % b)

\* Math.round(a / b) for b > 0: to the nearest integer, ties towards +infinity
MathRound(a, b) == (2 * a + b) \div (2 * b)

\* the hue of a pixel after the shift, h = (h + hueShift / (2 * Math.PI)) % 1,
\* as the fraction n / d with d > 0; % keeps the sign of the dividend
ShiftedHue(r, g, b, hue) ==
  LET max == Max(r, Max(g, b))
      min == Min(r, Min(g, b))
      diff == max - min
      \* 6 * h * diff, by the first case of switch (max) that matches
      h6 == IF max = r THEN (g - b) + (IF g < b THEN 6 * diff ELSE 0)
            ELSE IF max = g THEN (b - r) + 2 * diff
            ELSE (r - g) + 4 * diff
      \* h + hueShift / (2 * PI) = h + hue / 360, as a fraction hn0 / hd0
      hn0 == IF diff = 0 THEN hue ELSE 60 * h6 + hue * diff
      hd0 == IF diff = 0 THEN 360 ELSE 360 * diff
  IN  [n |-> JsRem(hn0, hd0), d |-> hd0]

\* hSector = Math.floor(h * 6) of the shifted hue
HueSector(r, g, b, hue) ==
  FloorDiv(6 * ShiftedHue(r, g, b, hue).n, ShiftedHue(r, g, b, hue).d)

\* one pixel of FilterManager.applyHueSaturation, for an integer hue (degrees)
\* and saturation (percent). Channels are r/255, g/255, b/255; every quantity
\* is an exact fraction:
\*   l = (max+min)/510, s = diff/sd, h = hn/hd, c = A*sn/(255*sden)
HueSaturationPixel(r, g, b, hue, saturation) ==
  LET max == Max(r, Max(g, b))
      min == Min(r, Min(g, b))
      diff == max - min
      \* s = l > 0.5 ? diff / (2 - max - min) : diff / (max + min)
      sd == IF max + min > 255 THEN 510 - max - min ELSE max + min
      \* h = (h + hueShift / (2 * Math.PI)) % 1
      hn1 == ShiftedHue(r, g, b, hue).n
      hd0 == ShiftedHue(r, g, b, hue).d
      gh == GCD(Abs(hn1), hd0)
      hn == hn1 \div gh
      hd == hd0 \div gh
      \* s = Math.max(0, Math.min(1, s * satFactor)), as sn / sden
      sn0 == IF diff = 0 THEN 0 ELSE diff * (100 + saturation)
      sden0 == IF diff = 0 THEN 1 ELSE 100 * sd
      sn1 == IF sn0 < 0 THEN 0 ELSE IF sn0 > sden0 THEN sden0 ELSE sn0
      gs == GCD(sn1, sden0)
      sn == sn1 \div gs
      sden == sden0 \div gs
      \* c * 255 = (1 - |2l - 1|) * 255 * s = A * sn / sden
      A == 255 - Abs(max + min - 255)
      \* ((h * 6) % 2) - 1 = (tn - hd) / hd, and 1 - |that| = B / hd
      tn == JsRem(6 * hn, 2 * hd)
      B == hd - Abs(tn - hd)
      hSector == HueSector(r, g, b, hue)
      \* 255 * (v + m) for v = c, x, 0, with m = l - c / 2, over 2 * sden * hd
      den == 2 * sden * hd
      base == (max + min) * sden * hd - A * sn * hd
      withC == base + 2 * A * sn * hd
      withX == base + 2 * A * sn * B
      rNew == IF hSector \in {0, 5} THEN withC
              ELSE IF hSector \in {1, 4} THEN withX ELSE base
      gNew == IF hSector \in {1, 2} THEN withC
              ELSE IF hSector \in {0, 3} THEN withX ELSE base
      bNew == IF hSector \in {3, 4} THEN withC
              ELSE IF hSector \in {2, 5} THEN withX ELSE base
      store(v) == Max(0, Min(255, MathRound(v, den)))
  IN  <<store(rNew), store(gNew), store(bNew)>>

\* FilterManager.applyHueSaturation(data, hue, saturation), the loop
applyHueSaturation(data, hue, saturation) ==
  [k \in 1..Len(data) |->
     IF Channel(k) = 3 THEN data[k]
     ELSE LET i == PixelStart(k)
          IN  HueSaturationPixel(data[i], data[i + 1], data[i + 2],
                                 hue, saturation)[Channel(k) + 1]]

----------------------------------------------------------------------------
(* FilterManager: dispatch *)

\* a key of FilterOptions: present with a value, or missing
Opt(v) == [set |-> TRUE, val |-> v]

Missing == [set |-> FALSE, val |-> 0]

MissingFlag == [set |-> FALSE, val |-> FALSE]

NoOptions ==
  [brightness |-> Missing, contrast |-> Missing, hue |-> Missing,
   saturation |-> Missing, blur |-> Missing, amount |-> Missing,
   uniform |-> MissingFlag]

\* options.key || default, for a numeric key: the default replaces a missing
\* key and also the value 0
OrNumber(o, default) == IF o.set /\ o.val # 0 THEN o.val ELSE default

\* options.key || default, for a boolean key
OrFlag(o, default) == IF o.set /\ o.val THEN TRUE ELSE default

\* the arguments FilterManager.processImageData passes to the transform
FilterArguments(options) ==
  [brightness |-> OrNumber(options.brightness, 0),
   contrast |-> OrNumber(options.contrast, 0),
   hue |-> OrNumber(options.hue, 0),
   saturation |-> OrNumber(options.saturation, 0),
   blur |-> OrNumber(options.blur, 5),
   amount |-> OrNumber(options.amount, 25),
   uniform |-> OrFlag(options.uniform, FALSE)]

\* the filter names the switch of processImageData has a case for
DispatchedFilters ==
  {"brightness", "saturation", "blur", "sharpen", "noise", "sepia",
   "grayscale", "invert", "emboss", "edge-detect"}

\* processImageData whose switch falls through to a blank ImageData for a
\* type it has no case for
processImageData_UnknownBlank(imageData, filterType, options, seed) ==
  LET data == imageData.data
      width == imageData.width
      height == imageData.height
      args == FilterArguments(options)
  IN  IF filterType = "brightness"
      THEN ImageData(applyBrightnessContrast(data, args.brightness, args.contrast),
                     width, height)
      ELSE IF filterType = "saturation"
      THEN ImageData(applyHueSaturation(data, args.hue, args.saturation), width, height)
      ELSE IF filterType = "blur" THEN applyBlur(imageData, args.blur)
      ELSE IF filterType = "sharpen" THEN applySharpenFilter(imageData)
      ELSE IF filterType = "noise"
      THEN ImageData(applyNoiseFilter(data, args.amount, args.uniform, seed), width, height)
      ELSE IF filterType = "sepia" THEN ImageData(applySepia(data), width, height)
      ELSE IF filterType = "grayscale" THEN ImageData(applyGrayscale(data), width, height)
      ELSE IF filterType = "invert" THEN ImageData(applyInvert(data), width, height)
      ELSE IF filterType = "emboss" THEN applyEmbossFilter(imageData)
      ELSE IF filterType = "edge-detect" THEN applyEdgeDetectFilter(imageData)
      ELSE ImageData(ZeroData(Len(data)), width, height)

\* FilterManager.processImageData(imageData, filterType, options); seed feeds
\* Math.random()
processImageData(imageData, filterType, options, seed) ==
  LET data == imageData.data
      width == imageData.width
      height == imageData.height
      args == FilterArguments(options)
  IN  IF filterType = "brightness"
      THEN ImageData(applyBrightnessContrast(data, args.brightness, args.contrast),
                     width, height)
      ELSE IF filterType = "saturation"
      THEN ImageData(applyHueSaturation(data, args.hue, args.saturation), width, height)
      ELSE IF filterType = "blur" THEN applyBlur(imageData, args.blur)
      ELSE IF filterType = "sharpen" THEN applySharpenFilter(imageData)
      ELSE IF filterType = "noise"
      THEN ImageData(applyNoiseFilter(data, args.amount, args.uniform, seed), width, height)
      ELSE IF filterType = "sepia" THEN ImageData(applySepia(data), width, height)
      ELSE IF filterType = "grayscale" THEN ImageData(applyGrayscale(data), width, height)
      ELSE IF filterType = "invert" THEN ImageData(applyInvert(data), width, height)
      ELSE IF filterType = "emboss" THEN applyEmbossFilter(imageData)
      ELSE IF filterType = "edge-detect" THEN applyEdgeDetectFilter(imageData)
      ELSE ImageData(data, width, height)

\* the menu entries that filter the active layer without the switch
DirectFilters ==
  {"applySepia", "applyGrayscale", "applyInvert", "applyVintage",
   "applyDustAndScratches", "applyOilPainting", "applyWatercolor", "applySketch"}

\* what each of those entry points writes back for the ImageData it read
DirectFilter(entry, imageData, seed) ==
  LET data == imageData.data
      width == imageData.width
      height == imageData.height
  IN  IF entry = "applySepia" THEN ImageData(applySepia(data), width, height)
      ELSE IF entry = "applyGrayscale" THEN ImageData(applyGrayscale(data), width, height)
      ELSE IF entry = "applyInvert" THEN ImageData(applyInvert(data), width, height)
      ELSE IF entry = "applyVintage" THEN ImageData(applyVintageData(data, seed), width, height)
      ELSE IF entry = "applyDustAndScratches" THEN applyMedianFilter(imageData, 3)
      ELSE IF entry = "applyOilPainting" THEN applyOilPaintingFilter(imageData, 7, 55)
      ELSE IF entry = "applyWatercolor" THEN applyBlur(imageData, 3)
      ELSE \* applySketch: grayscale in place, edge detection, invert of the result
           LET gray == ImageData(applyGrayscale(data), width, height)
               edgeData == applyEdgeDetectFilter(gray)
           IN  ImageData(applyInvert(edgeData.data), edgeData.width, edgeData.height)

\* the name each of those entry points gives the history state it records
DirectStateName(entry) ==
  IF entry = "applySepia" THEN "Apply Sepia"
  ELSE IF entry = "applyGrayscale" THEN "Apply Grayscale"
  ELSE IF entry = "applyInvert" THEN "Apply Invert"
  ELSE IF entry = "applyVintage" THEN "Apply Vintage"
  ELSE IF entry = "applyDustAndScratches" THEN "Apply Dust & Scratches"
  ELSE IF entry = "applyOilPainting" THEN "Apply Oil Painting"
  ELSE IF entry = "applyWatercolor" THEN "Apply Watercolor"
  ELSE "Apply Sketch"

\* the samples the neighbourhood filter behind a call reads from imageData:
\* the 3x3 convolutions and the median read R, G and B, the blur all four
\* channels over a window of its kernel size, the oil painting R, G and B over
\* radius 7; the other filters read no neighbour
NeighbourhoodReads(type, imageData, arguments) ==
  LET width == imageData.width
      height == imageData.height
  IN  IF type \in {"sharpen", "emboss", "edge-detect", "applySketch",
                   "applyDustAndScratches"}
      THEN WindowReads(width, height, 1, 0..2)
      ELSE IF type = "blur"
      THEN WindowReads(width, height,
                       Len(generateGaussianKernel(arguments.blur)) \div 2, 0..3)
      ELSE IF type = "applyWatercolor"
      THEN WindowReads(width, height, Len(generateGaussianKernel(3)) \div 2, 0..3)
      ELSE IF type = "applyOilPainting"
      THEN WindowReads(width, height, 7, 0..2)
      ELSE {}

\* ctx.getImageData(0, 0, canvas.width, canvas.height)
getImageData(canvas) == ImageData(canvas.data, canvas.width, canvas.height)

\* ctx.putImageData(imageData, 0, 0): the samples that fall inside the canvas
\* are replaced
putImageData(canvas, imageData) ==
  [canvas EXCEPT !.data =
     [k \in 1..Len(canvas.data) |->
        LET p == (k - 1) \div 4
            x == p % canvas.width
            y == p \div canvas.width
        IN  IF x < imageData.width /\ y < imageData.height
            THEN imageData.data[(y * imageData.width + x) * 4 + Channel(k) + 1]
            ELSE canvas.data[k]]]

----------------------------------------------------------------------------
(* HistoryManager *)

\* HistoryManager.cloneLayers(layers): every clone is a new Layer with a new id
cloneLayers(ls) == [k \in 1..Len(ls) |-> cloneLayer(ls[k], k)]

\* Array.prototype.slice(0, end)
Slice0(s, end) ==
  LET e == IF end < 0 THEN Max(Len(s) + end, 0) ELSE Min(end, Len(s))
  IN  SubSeq(s, 1, e)

\* PixelForge.getActiveDocument(): is there one
HasActiveDocument(docs, activeId) == activeId # NULL /\ activeId \in DOMAIN docs

\* addState pushing the state without cutting off the states after currentIndex
addState_RedoStatesKept(h, recording, maxSize, docs, activeId, name) ==
  IF ~recording \/ ~HasActiveDocument(docs, activeId) THEN h
  ELSE LET activeDocument == docs[activeId]
           state == [name |-> name,
                     layers |-> cloneLayers(activeDocument.layers),
                     activeLayerIndex |-> activeDocument.activeLayerIndex,
                     canvasWidth |-> activeDocument.width,
                     canvasHeight |-> activeDocument.height]
           pushed == Append(h.history, state)
       IN  IF Len(pushed) > maxSize
           THEN [history |-> Tail(pushed), currentIndex |-> Len(pushed) - 2]
           ELSE [history |-> pushed, currentIndex |-> Len(pushed) - 1]

\* HistoryManager.addState(name) on the history part h = [history, currentIndex]:
\* nothing while recording is paused or without an active document
addState(h, recording, maxSize, docs, activeId, name) ==
  IF ~recording \/ ~HasActiveDocument(docs, activeId) THEN h
  ELSE LET activeDocument == docs[activeId]
           state == [name |-> name,
                     layers |-> cloneLayers(activeDocument.layers),
                     activeLayerIndex |-> activeDocument.activeLayerIndex,
                     canvasWidth |-> activeDocument.width,
                     canvasHeight |-> activeDocument.height]
           pushed == Append(Slice0(h.history, h.currentIndex + 1), state)
       IN  IF Len(pushed) > maxSize
           THEN [history |-> Tail(pushed), currentIndex |-> Len(pushed) - 2]
           ELSE [history |-> pushed, currentIndex |-> Len(pushed) - 1]

canUndo(h) == h.currentIndex > 0

canRedo(h) == h.currentIndex < Len(h.history) - 1

\* PixelForge.restoreDocumentState(state), reached from restoreState through
\* the document:restore-state event: the active document takes fresh clones
restoreDocumentState(docs, activeId, state) ==
  IF ~HasActiveDocument(docs, activeId) THEN docs
  ELSE [docs EXCEPT ![activeId] =
          [width |-> state.canvasWidth, height |-> state.canvasHeight,
           layers |-> cloneLayers(state.layers),
           activeLayerIndex |-> state.activeLayerIndex]]

----------------------------------------------------------------------------
(* PixelForge: the handlers of the layer events, each with the history
   recording that its closing event triggers in HistoryManager *)

H == [history |-> history, currentIndex |-> currentIndex]

SetHistory(h) == history' = h.history /\ currentIndex' = h.currentIndex

ActiveDoc == documents[activeDocumentId]

\* the model follows the program for MaxOps operations
MoreOps == opCount < MaxOps

\* every operation counts towards MaxOps and leaves its name, the index it
\* acted on (-1 when it found none) and whether it threw
Did(op, index, error) ==
  /\ MoreOps
  /\ opCount' = opCount + 1
  /\ last' = [op |-> op, index |-> index, error |-> error]

\* the images a layer can be seeded with: opaque red
Palette == {<<255, 0, 0, 255>>}

\* the active document becomes doc, then addState(name) records it
Commit(doc, name) ==
  LET docs2 == [documents EXCEPT ![activeDocumentId] = doc]
  IN  /\ documents' = docs2
      /\ SetHistory(addState(H, isRecording, maxHistorySize, docs2,
                             activeDocumentId, name))

\* PixelForge.addLayer(), on layer:add
AddLayer ==
  /\ MoreOps
  /\ HasActiveDocument(documents, activeDocumentId)
  /\ Len(ActiveDoc.layers) < MaxLayers
  /\ LET id == generateId(ActiveDoc.layers)
         layer == NewLayer(id, ActiveDoc.width, ActiveDoc.height, FALSE)
     IN  /\ Commit(DocAddLayer(ActiveDoc, layer), "Add Layer")
         /\ Did("addLayer", Len(ActiveDoc.layers), FALSE)
  /\ UNCHANGED <<activeDocumentId, maxHistorySize, isRecording, pendingTimers, filterLog, exported, batchName, events>>

\* PixelForge.addLayerWithImage(name, image), on layer:add-with-image
AddLayerWithImage ==
  /\ MoreOps
  /\ HasActiveDocument(documents, activeDocumentId)
  /\ Len(ActiveDoc.layers) < MaxLayers
  /\ \E colour \in Palette :
       LET id == generateId(ActiveDoc.layers)
           layer == NewLayer(id, ActiveDoc.width, ActiveDoc.height, FALSE)
           image == fillRect(NewCanvas(ActiveDoc.width, ActiveDoc.height), colour)
           drawn == [layer EXCEPT
                       !.canvas = drawImage(layer.canvas, DefaultContext, image, 0, 0)]
       IN  /\ Commit(DocAddLayer(ActiveDoc, drawn), "Add Layer")
           /\ Did("addLayerWithImage", Len(ActiveDoc.layers), FALSE)
  /\ UNCHANGED <<activeDocumentId, maxHistorySize, isRecording, pendingTimers, filterLog, exported, batchName, events>>

\* PixelForge.deleteActiveLayer(), on layer:delete; confirmed is the answer to
\* the confirm() dialog shown for a background layer
DeleteActiveLayer ==
  /\ MoreOps
  /\ HasActiveDocument(documents, activeDocumentId)
  /\ \E confirmed \in BOOLEAN :
       IF Len(ActiveDoc.layers) <= 1
       THEN /\ Did("deleteActiveLayer", -1, FALSE)
            /\ UNCHANGED <<documents, history, currentIndex>>
       ELSE IF ~HasActiveLayer(ActiveDoc)
       THEN /\ Did("deleteActiveLayer", -1, TRUE)
            /\ UNCHANGED <<documents, history, currentIndex>>
       ELSE LET activeLayer == At(ActiveDoc.layers, ActiveDoc.activeLayerIndex)
            IN  IF activeLayer.isBackground /\ ~confirmed
                THEN /\ Did("deleteActiveLayer", -1, FALSE)
                     /\ UNCHANGED <<documents, history, currentIndex>>
                ELSE /\ Commit(DocRemoveLayer(ActiveDoc, activeLayer.id), "Delete Layer")
                     /\ Did("deleteActiveLayer", ActiveDoc.activeLayerIndex, FALSE)
  /\ UNCHANGED <<activeDocumentId, maxHistorySize, isRecording, pendingTimers, filterLog, exported, batchName, events>>

\* PixelForge.duplicateActiveLayer(), on layer:duplicate; reading the id of a
\* missing active layer throws
DuplicateActiveLayer ==
  /\ MoreOps
  /\ HasActiveDocument(documents, activeDocumentId)
  /\ Len(ActiveDoc.layers) < MaxLayers
  /\ IF ~HasActiveLayer(ActiveDoc)
     THEN /\ Did("duplicateActiveLayer", -1, TRUE)
          /\ UNCHANGED <<documents, history, currentIndex>>
     ELSE LET activeLayer == At(ActiveDoc.layers, ActiveDoc.activeLayerIndex)
          IN  /\ Commit(DocDuplicateLayer(ActiveDoc, activeLayer.id), "Duplicate Layer")
              /\ Did("duplicateActiveLayer", ActiveDoc.activeLayerIndex, FALSE)
  /\ UNCHANGED <<activeDocumentId, maxHistorySize, isRecording, pendingTimers, filterLog, exported, batchName, events>>

\* PixelForge.setActiveLayer(layerId), on layer:set-active
SetActiveLayer ==
  /\ MoreOps
  /\ HasActiveDocument(documents, activeDocumentId)
  /\ \E layerId \in LayerIds :
       LET layerIndex == findIndex(ActiveDoc.layers, layerId)
       IN  /\ documents' = [documents EXCEPT ![activeDocumentId] =
                 IF layerIndex # -1
                 THEN [@ EXCEPT !.activeLayerIndex = layerIndex]
                 ELSE @]
           /\ Did("setActiveLayer", layerIndex, FALSE)
  /\ UNCHANGED <<activeDocumentId, history, currentIndex, maxHistorySize,
                 isRecording, pendingTimers, filterLog, exported, batchName, events>>

\* reorderLayers without the update of activeLayerIndex
reorderLayers_ActiveIndexKept(doc, draggedLayerId, targetLayerId) ==
  LET draggedIndex == findIndex(doc.layers, draggedLayerId)
      targetIndex == findIndex(doc.layers, targetLayerId)
      active == doc.activeLayerIndex
  IN  IF draggedIndex # -1 /\ targetIndex # -1 /\ draggedIndex # targetIndex
      THEN [doc EXCEPT
              !.layers = InsertAt(RemoveAt(doc.layers, draggedIndex), targetIndex,
                                  At(doc.layers, draggedIndex)),
              !.activeLayerIndex = active]
      ELSE doc

\* the layer stack and active index PixelForge.reorderLayers leaves
reorderLayers(doc, draggedLayerId, targetLayerId) ==
  LET draggedIndex == findIndex(doc.layers, draggedLayerId)
      targetIndex == findIndex(doc.layers, targetLayerId)
      active == doc.activeLayerIndex
  IN  IF draggedIndex # -1 /\ targetIndex # -1 /\ draggedIndex # targetIndex
      THEN [doc EXCEPT
              !.layers = InsertAt(RemoveAt(doc.layers, draggedIndex), targetIndex,
                                  At(doc.layers, draggedIndex)),
              !.activeLayerIndex =
                 IF active = draggedIndex THEN targetIndex
                 ELSE IF draggedIndex < active /\ targetIndex >= active
                      THEN active - 1
                 ELSE IF draggedIndex > active /\ targetIndex <= active
                      THEN active + 1
                 ELSE active]
      ELSE doc

\* PixelForge.reorderLayers(draggedLayerId, targetLayerId), on layer:reorder
ReorderLayers ==
  /\ MoreOps
  /\ HasActiveDocument(documents, activeDocumentId)
  /\ \E draggedLayerId \in LayerIds, targetLayerId \in LayerIds :
       LET draggedIndex == findIndex(ActiveDoc.layers, draggedLayerId)
           targetIndex == findIndex(ActiveDoc.layers, targetLayerId)
       IN  /\ IF draggedIndex # -1 /\ targetIndex # -1 /\ draggedIndex # targetIndex
              THEN Commit(reorderLayers(ActiveDoc, draggedLayerId, targetLayerId),
                          "Reorder Layers")
              ELSE UNCHANGED <<documents, history, currentIndex>>
           /\ Did("reorderLayers", targetIndex, FALSE)
  /\ UNCHANGED <<activeDocumentId, maxHistorySize, isRecording, pendingTimers, filterLog, exported, batchName, events>>

----------------------------------------------------------------------------
(* The public operations of Document, called on the active document; they
   emit no event, so nothing is recorded *)

DocFrame == UNCHANGED <<activeDocumentId, history, currentIndex, maxHistorySize,
                        isRecording, pendingTimers, filterLog, exported, batchName, events>>

SetActiveDoc(doc) == documents' = [documents EXCEPT ![activeDocumentId] = doc]

RemoveLayer ==
  /\ MoreOps
  /\ HasActiveDocument(documents, activeDocumentId)
  /\ \E layerId \in LayerIds :
       /\ SetActiveDoc(DocRemoveLayer(ActiveDoc, layerId))
       /\ Did("removeLayer", findIndex(ActiveDoc.layers, layerId), FALSE)
  /\ DocFrame

MoveLayer ==
  /\ MoreOps
  /\ HasActiveDocument(documents, activeDocumentId)
  /\ \E layerId \in LayerIds, newIndex \in -1..MaxLayers :
       /\ SetActiveDoc(DocMoveLayer(ActiveDoc, layerId, newIndex))
       /\ Did("moveLayer", newIndex, FALSE)
  /\ DocFrame

DuplicateLayer ==
  /\ MoreOps
  /\ HasActiveDocument(documents, activeDocumentId)
  /\ Len(ActiveDoc.layers) < MaxLayers
  /\ \E layerId \in LayerIds :
       /\ SetActiveDoc(DocDuplicateLayer(ActiveDoc, layerId))
       /\ Did("duplicateLayer", findIndex(ActiveDoc.layers, layerId), FALSE)
  /\ DocFrame

MergeDown ==
  /\ MoreOps
  /\ HasActiveDocument(documents, activeDocumentId)
  /\ \E layerId \in LayerIds :
       /\ SetActiveDoc(DocMergeDown(ActiveDoc, layerId))
       /\ Did("mergeDown", findIndex(ActiveDoc.layers, layerId), FALSE)
  /\ DocFrame

FlattenImage ==
  /\ MoreOps
  /\ HasActiveDocument(documents, activeDocumentId)
  /\ SetActiveDoc(DocFlattenImage(ActiveDoc))
  /\ Did("flattenImage", Len(ActiveDoc.layers), FALSE)
  /\ DocFrame

----------------------------------------------------------------------------
(* Layer properties, export and project load *)

\* the values a layer:opacity-changed event or a project file carries
Opacities == {0, 50, 100, 150}

\* the values a layer:blend-mode-changed event carries
BlendModes == {"normal", "multiply", "screen"}

\* PixelForge.setLayerOpacity(opacity), on layer:opacity-changed; the
\* layer:opacity-updated it emits makes HistoryManager record the state
SetLayerOpacity ==
  /\ MoreOps
  /\ HasActiveDocument(documents, activeDocumentId)
  /\ \E opacity \in Opacities :
       IF HasActiveLayer(ActiveDoc)
       THEN /\ Commit([ActiveDoc EXCEPT
                         !.layers[ActiveDoc.activeLayerIndex + 1].opacity = opacity],
                      "Change Layer Opacity")
            /\ Did("setLayerOpacity", ActiveDoc.activeLayerIndex, FALSE)
       ELSE /\ UNCHANGED <<documents, history, currentIndex>>
            /\ Did("setLayerOpacity", -1, FALSE)
  /\ UNCHANGED <<activeDocumentId, maxHistorySize, isRecording, pendingTimers,
                 filterLog, exported, batchName, events>>

\* PixelForge.setLayerBlendMode(blendMode), on layer:blend-mode-changed
SetLayerBlendMode ==
  /\ MoreOps
  /\ HasActiveDocument(documents, activeDocumentId)
  /\ \E blendMode \in BlendModes :
       IF HasActiveLayer(ActiveDoc)
       THEN /\ Commit([ActiveDoc EXCEPT
                         !.layers[ActiveDoc.activeLayerIndex + 1].blendMode = blendMode],
                      "Change Blend Mode")
            /\ Did("setLayerBlendMode", ActiveDoc.activeLayerIndex, FALSE)
       ELSE /\ UNCHANGED <<documents, history, currentIndex>>
            /\ Did("setLayerBlendMode", -1, FALSE)
  /\ UNCHANGED <<activeDocumentId, maxHistorySize, isRecording, pendingTimers,
                 filterLog, exported, batchName, events>>

\* PixelForge.toggleLayerVisibility(layerId), on layer:toggle-visibility;
\* nothing is recorded
ToggleLayerVisibility ==
  /\ MoreOps
  /\ HasActiveDocument(documents, activeDocumentId)
  /\ \E layerId \in LayerIds :
       LET index == findIndex(ActiveDoc.layers, layerId)
       IN  /\ documents' =
                IF index # -1
                THEN [documents EXCEPT
                        ![activeDocumentId].layers[index + 1].visible = ~@]
                ELSE documents
           /\ Did("toggleLayerVisibility", index, FALSE)
  /\ UNCHANGED <<activeDocumentId, history, currentIndex, maxHistorySize,
                 isRecording, pendingTimers, filterLog, exported, batchName, events>>

\* Document.exportToDataURL() of the active document
ExportToDataURL ==
  /\ MoreOps
  /\ HasActiveDocument(documents, activeDocumentId)
  /\ exported' = <<exportToDataURL(ActiveDoc)>>
  /\ UNCHANGED <<batchName, events>>
  /\ Did("exportToDataURL", Len(ActiveDoc.layers), FALSE)
  /\ UNCHANGED <<documents, activeDocumentId, history, currentIndex,
                 maxHistorySize, isRecording, pendingTimers, filterLog>>

\* the forEach of FileManager.createTempCanvas from layer k on: each visible
\* layer is drawn at its offset (layer.x, layer.y)
RECURSIVE TempCanvasDraw(_, _, _, _)
TempCanvasDraw(canvas, ctx, ls, k) ==
  IF k > Len(ls) THEN canvas
  ELSE IF ls[k].visible
       THEN LET c2 == setGlobalCompositeOperation(
                        setGlobalAlpha(ctx, ls[k].opacity), ls[k].blendMode)
            IN  TempCanvasDraw(drawImage(canvas, c2, ls[k].canvas, ls[k].x, ls[k].y),
                               c2, ls, k + 1)
       ELSE TempCanvasDraw(canvas, ctx, ls, k + 1)

\* FileManager.createTempCanvas(document): the canvas the jpg and webp exports
\* encode
createTempCanvas(doc) ==
  TempCanvasDraw(NewCanvas(doc.width, doc.height), DefaultContext, doc.layers, 1)

\* the export of the active document as jpg or webp
ExportTempCanvas ==
  /\ MoreOps
  /\ HasActiveDocument(documents, activeDocumentId)
  /\ exported' = <<createTempCanvas(ActiveDoc)>>
  /\ UNCHANGED <<batchName, events>>
  /\ Did("createTempCanvas", Len(ActiveDoc.layers), FALSE)
  /\ UNCHANGED <<documents, activeDocumentId, history, currentIndex,
                 maxHistorySize, isRecording, pendingTimers, filterLog>>

\* the offsets a layer is moved to
Offsets == {-1, 0, 1}

\* Layer.move(x, y) on the active layer
LayerMove ==
  /\ MoreOps
  /\ HasActiveDocument(documents, activeDocumentId)
  /\ HasActiveLayer(ActiveDoc)
  /\ \E x \in Offsets, y \in Offsets :
       SetActiveDoc([ActiveDoc EXCEPT
                       !.layers[ActiveDoc.activeLayerIndex + 1].x = x,
                       !.layers[ActiveDoc.activeLayerIndex + 1].y = y])
  /\ Did("move", ActiveDoc.activeLayerIndex, FALSE)
  /\ DocFrame

\* FileManager.loadLayerFromData(layerData), for a layer without imageData
loadLayerFromData(id, layerData) ==
  [NewLayer(id, layerData.width, layerData.height, layerData.isBackground)
     EXCEPT !.visible = layerData.visible,
            !.opacity = layerData.opacity,
            !.blendMode = layerData.blendMode,
            !.x = layerData.x,
            !.y = layerData.y]

\* FileManager.loadProject(projectData, fileName) of a project of one layer,
\* then the document:loaded handler: PixelForge.addDocument makes the loaded
\* document the active one
LoadProject ==
  /\ MoreOps
  /\ Cardinality(DOMAIN documents) < MaxDocuments
  /\ \E opacity \in Opacities :
       LET layerData == [width |-> 1, height |-> 1, isBackground |-> TRUE,
                         visible |-> TRUE, opacity |-> opacity,
                         blendMode |-> "normal", x |-> 0, y |-> 0]
           document == [NewDocument(1, 1, "white") EXCEPT
                          !.layers = <<loadLayerFromData(1, layerData)>>,
                          !.activeLayerIndex = 0]
           id == Cardinality(DOMAIN documents) + 1
       IN  /\ documents' = [d \in DOMAIN documents \cup {id} |->
                              IF d = id THEN document ELSE documents[d]]
           /\ activeDocumentId' = id
  /\ Did("loadProject", 0, FALSE)
  /\ UNCHANGED <<history, currentIndex, maxHistorySize, isRecording,
                 pendingTimers, filterLog, exported, batchName, events>>

----------------------------------------------------------------------------
(* Creating a document: PixelForge.createNewDocument and the create button of
   the new-document modal *)

\* the sizes asked for: positive, zero and negative widths and heights
DocumentSizes == {<<1, 1>>, <<2, 1>>, <<0, 1>>, <<1, 0>>, <<-1, 1>>, <<1, -1>>}

\* the largest width or height the create button lets through
MaxDocumentSize == 8192

\* PixelForge.createNewDocument(name, width, height, background) with a name:
\* a width or height of 0 is falsy and opens the modal, any other size
\* constructs the document, which addDocument makes the active one
createNewDocument(width, height, background, op, asked) ==
  LET id == Cardinality(DOMAIN documents) + 1
      constructed == width # 0 /\ height # 0
  IN  /\ MoreOps
      /\ IF constructed
         THEN /\ documents' = [d \in DOMAIN documents \cup {id} |->
                                 IF d = id THEN NewDocument(width, height, background)
                                 ELSE documents[d]]
              /\ activeDocumentId' = id
         ELSE UNCHANGED <<documents, activeDocumentId>>
      /\ opCount' = opCount + 1
      /\ last' = [op |-> op, index |-> -1, error |-> FALSE,
                  width |-> asked[1], height |-> asked[2],
                  constructed |-> constructed,
                  modal |-> ~constructed]
      /\ UNCHANGED <<history, currentIndex, maxHistorySize, isRecording,
                     pendingTimers, filterLog, exported, batchName, events>>

\* a call of PixelForge.createNewDocument from the application
CreateNewDocument ==
  /\ Cardinality(DOMAIN documents) < MaxDocuments
  /\ \E size \in DocumentSizes, background \in {"white", "transparent"} :
       createNewDocument(size[1], size[2], background, "createNewDocument", size)

\* createBtn.onclick of showNewDocumentModal with the integers typed into the
\* width and height fields: each is brought into 1..8192 and passed on
CreateButtonClicked ==
  /\ Cardinality(DOMAIN documents) < MaxDocuments
  /\ \E size \in DocumentSizes, background \in {"white", "transparent"} :
       LET width == Max(1, Min(MaxDocumentSize, size[1]))
           height == Max(1, Min(MaxDocumentSize, size[2]))
       IN  createNewDocument(width, height, background, "createBtn.onclick", size)

----------------------------------------------------------------------------
(* HistoryManager: recording, undo, redo and the timer of restoreState *)

\* the tool:stroke-completed handler: addState("Brush Stroke")
StrokeCompleted ==
  /\ MoreOps
  /\ SetHistory(addState(H, isRecording, maxHistorySize, documents,
                         activeDocumentId, "Brush Stroke"))
  /\ Did("addState", -1, FALSE)
  /\ UNCHANGED <<documents, activeDocumentId, maxHistorySize, isRecording,
                 pendingTimers, filterLog, exported, batchName, events>>

\* HistoryManager.restoreState(state): recording is paused, the document is
\* restored, and a timer that resumes recording is started
RestoreState(state) ==
  /\ isRecording' = FALSE
  /\ documents' = restoreDocumentState(documents, activeDocumentId, state)
  /\ pendingTimers' = pendingTimers + 1

\* HistoryManager.undo()
Undo ==
  /\ MoreOps
  /\ pendingTimers < MaxTimers
  /\ IF canUndo(H)
     THEN /\ currentIndex' = currentIndex - 1
          /\ RestoreState(At(history, currentIndex - 1))
     ELSE UNCHANGED <<currentIndex, isRecording, documents, pendingTimers>>
  /\ Did("undo", currentIndex, FALSE)
  /\ UNCHANGED <<activeDocumentId, history, maxHistorySize, filterLog, exported, batchName, events>>

\* HistoryManager.redo()
Redo ==
  /\ MoreOps
  /\ pendingTimers < MaxTimers
  /\ IF canRedo(H)
     THEN /\ currentIndex' = currentIndex + 1
          /\ RestoreState(At(history, currentIndex + 1))
     ELSE UNCHANGED <<currentIndex, isRecording, documents, pendingTimers>>
  /\ Did("redo", currentIndex, FALSE)
  /\ UNCHANGED <<activeDocumentId, history, maxHistorySize, filterLog, exported, batchName, events>>

\* the callback of the setTimeout in restoreState: isRecording = true
TimerFire ==
  /\ MoreOps
  /\ pendingTimers > 0
  /\ pendingTimers' = pendingTimers - 1
  /\ isRecording' = TRUE
  /\ Did("timer", -1, FALSE)
  /\ UNCHANGED <<documents, activeDocumentId, history, currentIndex,
                 maxHistorySize, filterLog, exported, batchName, events>>

\* HistoryManager.jumpToState(targetIndex), from a click on item targetIndex of
\* the history panel, which has one item for each state of the history
JumpToState ==
  /\ MoreOps
  /\ pendingTimers < MaxTimers
  /\ \E targetIndex \in 0..(Len(history) - 1) :
       /\ IF targetIndex = currentIndex
          THEN UNCHANGED <<currentIndex, isRecording, documents, pendingTimers>>
          ELSE /\ currentIndex' = targetIndex
               /\ RestoreState(At(history, targetIndex))
       /\ Did("jumpToState", targetIndex, FALSE)
  /\ UNCHANGED <<activeDocumentId, history, maxHistorySize, filterLog, exported, batchName, events>>

\* HistoryManager.clearHistory(), on history:clear
ClearHistory ==
  /\ MoreOps
  /\ history' = <<>>
  /\ currentIndex' = -1
  /\ Did("clearHistory", -1, FALSE)
  /\ UNCHANGED <<documents, activeDocumentId, maxHistorySize, isRecording,
                 pendingTimers, filterLog, exported, batchName, events>>

\* HistoryManager.setMaxHistorySize(size) on the history part h: the oldest
\* states are shifted out while the history is too long, then currentIndex is
\* raised to 0 if it is below
setMaxHistorySize(h, size) ==
  LET max == Max(1, size)
      dropped == Max(0, Len(h.history) - max)
  IN  [history |-> SubSeq(h.history, dropped + 1, Len(h.history)),
       currentIndex |-> Max(0, h.currentIndex - dropped)]

\* HistoryManager.setMaxHistorySize(size), on history:set-max-size
SetMaxHistorySize ==
  /\ MoreOps
  /\ \E size \in 0..MaxHistory :
       /\ maxHistorySize' = Max(1, size)
       /\ SetHistory(setMaxHistorySize(H, size))
       /\ Did("setMaxHistorySize", size, FALSE)
  /\ UNCHANGED <<documents, activeDocumentId, isRecording, pendingTimers,
                 filterLog, exported, batchName, events>>

\* HistoryManager.getMemoryUsage(): 4 bytes for each pixel of each layer of
\* each state
RECURSIVE getMemoryUsage(_)
getMemoryUsage(states) ==
  IF states = <<>> THEN 0
  ELSE SumOver([n \in 1..Len(Head(states).layers) |->
                  Head(states).layers[n].canvas.width
                    * Head(states).layers[n].canvas.height * 4],
               1, Len(Head(states).layers))
       + getMemoryUsage(Tail(states))

\* the memory above which optimizeMemory trims: 100 * 1024 * 1024
MaxMemory == 104857600

\* the history length above which optimizeMemory trims
MinTrimmedLength == 10

\* HistoryManager.optimizeMemory() on the history part h: above the memory
\* limit, and with more than 10 states, the oldest 30% of the states go
optimizeMemory(h) ==
  IF getMemoryUsage(h.history) > MaxMemory /\ Len(h.history) > MinTrimmedLength
  THEN LET statesToRemove == (Len(h.history) * 3) \div 10
       IN  [history |-> SubSeq(h.history, statesToRemove + 1, Len(h.history)),
            currentIndex |-> Max(0, h.currentIndex - statesToRemove)]
  ELSE h

\* HistoryManager.optimizeMemory()
OptimizeMemory ==
  /\ MoreOps
  /\ SetHistory(optimizeMemory(H))
  /\ Did("optimizeMemory", -1, FALSE)
  /\ UNCHANGED <<documents, activeDocumentId, maxHistorySize, isRecording,
                 pendingTimers, filterLog, exported, batchName, events>>

----------------------------------------------------------------------------
(* FilterManager: the calls that filter the active layer *)

\* the options a caller passes with each dispatched or unknown filter type
FilterCalls ==
  {[type |-> "brightness", options |-> o] :
     o \in {NoOptions,
            [NoOptions EXCEPT !.brightness = Opt(0), !.contrast = Opt(0)],
            [NoOptions EXCEPT !.brightness = Opt(-30), !.contrast = Opt(50)]}}
  \cup
  {[type |-> "saturation", options |-> o] :
     o \in {NoOptions,
            [NoOptions EXCEPT !.hue = Opt(120)],
            [NoOptions EXCEPT !.hue = Opt(-180), !.saturation = Opt(50)]}}
  \cup
  {[type |-> "blur", options |-> o] :
     o \in {NoOptions,
            [NoOptions EXCEPT !.blur = Opt(0)],
            [NoOptions EXCEPT !.blur = Opt(2)]}}
  \cup
  {[type |-> "noise", options |-> o] :
     o \in {NoOptions,
            [NoOptions EXCEPT !.amount = Opt(0), !.uniform = Opt(FALSE)],
            [NoOptions EXCEPT !.amount = Opt(10), !.uniform = Opt(TRUE)]}}
  \cup
  {[type |-> t, options |-> NoOptions] :
     t \in {"sharpen", "sepia", "grayscale", "invert", "emboss", "edge-detect"}}
  \cup
  {[type |-> "contrast", options |-> NoOptions],
   [type |-> "motion-blur",
    options |-> [NoOptions EXCEPT !.contrast = Opt(50), !.blur = Opt(2)]]}

\* where in RandomQuarters the sequence of Math.random() starts
Seeds == {0, 1}

\* the callback with history:add-state emitted before the buffer is written back
FilterActiveLayer_RecordedFirst(type, options, arguments, output, name) ==
  LET index == ActiveDoc.activeLayerIndex
      layer == At(ActiveDoc.layers, index)
      doc2 == [ActiveDoc EXCEPT
                 !.layers[index + 1].canvas = putImageData(layer.canvas, output)]
      docs2 == [documents EXCEPT ![activeDocumentId] = doc2]
  IN  /\ documents' = docs2
      /\ SetHistory(IF isRecording
                    THEN addState(H, isRecording, maxHistorySize, documents,
                                  activeDocumentId, name)
                    ELSE H)
      /\ filterLog' = Append(filterLog,
                             [type |-> type, options |-> options,
                              arguments |-> arguments,
                              input |-> getImageData(layer.canvas),
                              reads |-> NeighbourhoodReads(type,
                                          getImageData(layer.canvas), arguments),
                              output |-> output,
                              events |-> <<<<"history:add-state", name>>,
                                           <<"putImageData", layer.id>>,
                                           <<"layer:updated", layer.id>>>>])

\* a filter call found layer as the active layer: its canvas takes the output,
\* layer:updated is emitted, and history:add-state records the state under
\* name (while recording is on)
FilterActiveLayer(type, options, arguments, output, name) ==
  LET index == ActiveDoc.activeLayerIndex
      layer == At(ActiveDoc.layers, index)
      doc2 == [ActiveDoc EXCEPT
                 !.layers[index + 1].canvas = putImageData(layer.canvas, output)]
      docs2 == [documents EXCEPT ![activeDocumentId] = doc2]
  IN  /\ documents' = docs2
      /\ SetHistory(IF isRecording
                    THEN addState(H, isRecording, maxHistorySize, docs2,
                                  activeDocumentId, name)
                    ELSE H)
      /\ filterLog' = Append(filterLog,
                             [type |-> type, options |-> options,
                              arguments |-> arguments,
                              input |-> getImageData(layer.canvas),
                              reads |-> NeighbourhoodReads(type,
                                          getImageData(layer.canvas), arguments),
                              output |-> output,
                              events |-> <<<<"putImageData", layer.id>>,
                                           <<"layer:updated", layer.id>>,
                                           <<"history:add-state", name>>>>])

\* FilterManager.applyFilter(filterType, options): the layer:get-active
\* callback gets null, and returns, when there is no active layer
applyFilter(filterType, options, seed) ==
  /\ IF HasActiveDocument(documents, activeDocumentId) /\ HasActiveLayer(ActiveDoc)
     THEN LET layer == At(ActiveDoc.layers, ActiveDoc.activeLayerIndex)
          IN  /\ FilterActiveLayer(filterType, options, FilterArguments(options),
                   processImageData(getImageData(layer.canvas), filterType,
                                    options, seed),
                   "Apply Filter")
              /\ Did("applyFilter", ActiveDoc.activeLayerIndex, FALSE)
     ELSE /\ Did("applyFilter", -1, FALSE)
          /\ UNCHANGED <<documents, history, currentIndex, filterLog>>
  /\ UNCHANGED <<activeDocumentId, maxHistorySize, isRecording, pendingTimers,
                 exported, batchName, events>>

\* applySepia(), applyGrayscale(), applyInvert() called without data, and
\* applyVintage(), applyDustAndScratches(), applyOilPainting(),
\* applyWatercolor(), applySketch()
applyDirect(entry, seed) ==
  /\ HasActiveDocument(documents, activeDocumentId)
  /\ HasActiveLayer(ActiveDoc)
  /\ LET layer == At(ActiveDoc.layers, ActiveDoc.activeLayerIndex)
     IN  FilterActiveLayer(entry, NoOptions, FilterArguments(NoOptions),
           DirectFilter(entry, getImageData(layer.canvas), seed),
           DirectStateName(entry))
  /\ Did("applyDirectFilter", ActiveDoc.activeLayerIndex, FALSE)
  /\ UNCHANGED <<activeDocumentId, maxHistorySize, isRecording, pendingTimers,
                 exported, batchName, events>>

\* one applyFilter call, with any of the types and options of FilterCalls
ApplyFilter ==
  /\ Len(filterLog) < MaxFilterSteps
  /\ \E call \in FilterCalls, seed \in Seeds :
       /\ call.type # "noise" => seed = 0
       /\ applyFilter(call.type, call.options, seed)

\* one call of a menu entry that filters without the switch
ApplyDirectFilter ==
  /\ Len(filterLog) < MaxFilterSteps
  /\ \E entry \in DirectFilters, seed \in Seeds :
       /\ entry # "applyVintage" => seed = 0
       /\ applyDirect(entry, seed)

\* applyFilter("invert"), called again and again on the same layer
InvertByFilter ==
  /\ Len(filterLog) < MaxInvertSteps
  /\ applyFilter("invert", NoOptions, 0)

\* applyInvert(), called again and again on the same layer
InvertDirect ==
  /\ Len(filterLog) < MaxInvertSteps
  /\ applyDirect("applyInvert", 0)

\* applyFilter("grayscale"), called again and again on the same layer
GrayscaleByFilter ==
  /\ Len(filterLog) < MaxGrayscaleSteps
  /\ applyFilter("grayscale", NoOptions, 0)

\* applyGrayscale(), called again and again on the same layer
GrayscaleDirect ==
  /\ Len(filterLog) < MaxGrayscaleSteps
  /\ applyDirect("applyGrayscale", 0)

\* the application before any document is open
InitCreate ==
  /\ documents = <<>>
  /\ activeDocumentId = NULL
  /\ history = <<>>
  /\ currentIndex = -1
  /\ maxHistorySize = MaxHistory
  /\ isRecording = TRUE
  /\ pendingTimers = 0
  /\ last = [op |-> "constructor", index |-> -1, error |-> FALSE]
  /\ opCount = 0
  /\ filterLog = <<>>
  /\ exported = <<>>
  /\ batchName = <<>>
  /\ events = NoListeners

\* the pixels an image is made of
PixelPalette ==
  <<<<10, 20, 30, 255>>, <<255, 0, 0, 255>>, <<0, 255, 0, 128>>,
    <<255, 255, 255, 255>>, <<0, 0, 0, 0>>>>

\* the image of the given size whose pixel p is entry (first + p * step) of
\* the palette
PatternImage(width, height, first, step) ==
  ImageData([k \in 1..(width * height * 4) |->
               PixelPalette[((first + ((k - 1) \div 4) * step) % Len(PixelPalette)) + 1]
                           [Channel(k) + 1]],
            width, height)

\* a document whose background layer holds the imported image
InitWithImage(image) ==
  LET doc == NewDocument(image.width, image.height, "transparent")
      docs == [d \in {1} |->
                 [doc EXCEPT !.layers[1].canvas =
                    putImageData(doc.layers[1].canvas, image)]]
      h == addState([history |-> <<>>, currentIndex |-> -1], TRUE,
                    MaxHistory, docs, 1, "Create Document")
  IN  /\ documents = docs
      /\ activeDocumentId = 1
      /\ history = h.history
      /\ currentIndex = h.currentIndex
      /\ maxHistorySize = MaxHistory
      /\ isRecording = TRUE
      /\ pendingTimers = 0
      /\ last = [op |-> "createDocument", index |-> -1, error |-> FALSE]
      /\ opCount = 0
      /\ filterLog = <<>>
      /\ exported = <<>>
      /\ batchName = <<>>
      /\ events = NoListeners

\* a document whose background layer holds one of the pattern images
InitFilter ==
  \E width \in 1..MaxW, height \in 1..MaxH,
     first \in 0..2, step \in 0..1 :
    InitWithImage(PatternImage(width, height, first, step))

NextFilter ==
  \/ ApplyFilter
  \/ ApplyDirectFilter

SpecFilter == InitFilter /\ [][NextFilter]_vars

\* a document holding one of the pattern images, or no document at all
InitApply == InitFilter \/ InitCreate

NextApply == ApplyFilter

SpecApply == InitApply /\ [][NextApply]_vars

NextInvert ==
  \/ InvertByFilter
  \/ InvertDirect

SpecInvert == InitFilter /\ [][NextInvert]_vars

\* sample values at the ends and in the middle of the 8-bit range
SampleLevels == {0, 1, 127, 128, 254, 255}

\* a pattern image, or a single pixel of any three sample levels
InitGrayscale ==
  \/ InitFilter
  \/ \E r \in SampleLevels, g \in SampleLevels, b \in SampleLevels, a \in {0, 255} :
       InitWithImage(ImageData(<<r, g, b, a>>, 1, 1))

NextGrayscale ==
  \/ GrayscaleByFilter
  \/ GrayscaleDirect

SpecGrayscale == InitGrayscale /\ [][NextGrayscale]_vars

----------------------------------------------------------------------------
(* The layer stack of one open document *)

\* PixelForge.createDocument(options): the document is added and made active,
\* then addState("Create Document")
CreatedDocument(width, height, background) ==
  LET docs == [d \in {1} |-> NewDocument(width, height, background)]
      h == addState([history |-> <<>>, currentIndex |-> -1], TRUE,
                    MaxHistory, docs, 1, "Create Document")
  IN  /\ documents = docs
      /\ activeDocumentId = 1
      /\ history = h.history
      /\ currentIndex = h.currentIndex
      /\ maxHistorySize = MaxHistory
      /\ isRecording = TRUE
      /\ pendingTimers = 0
      /\ last = [op |-> "createDocument", index |-> -1, error |-> FALSE]
      /\ opCount = 0
      /\ filterLog = <<>>
      /\ exported = <<>>
      /\ batchName = <<>>
      /\ events = NoListeners

NextCreate ==
  \/ CreateNewDocument
  \/ CreateButtonClicked

SpecCreate == InitCreate /\ [][NextCreate]_vars

Init == \E background \in {"white", "transparent"} : CreatedDocument(1, 1, background)

Next ==
  \/ AddLayer
  \/ AddLayerWithImage
  \/ DeleteActiveLayer
  \/ DuplicateActiveLayer
  \/ SetActiveLayer
  \/ ReorderLayers
  \/ RemoveLayer
  \/ MoveLayer
  \/ DuplicateLayer
  \/ MergeDown
  \/ FlattenImage
  \/ StrokeCompleted
  \/ Undo
  \/ Redo
  \/ TimerFire

Spec == Init /\ [][Next]_vars

\* the operations that set what a layer contributes to the composite, and the
\* two composites
NextComposite ==
  \/ AddLayerWithImage
  \/ DuplicateActiveLayer
  \/ SetActiveLayer
  \/ SetLayerOpacity
  \/ SetLayerBlendMode
  \/ ToggleLayerVisibility
  \/ FlattenImage
  \/ ExportToDataURL
  \/ LoadProject
  \/ Undo
  \/ TimerFire

SpecComposite == Init /\ [][NextComposite]_vars

\* the operations of the history, with the layer operation that records most
NextHistory ==
  \/ AddLayer
  \/ StrokeCompleted
  \/ Undo
  \/ Redo
  \/ JumpToState
  \/ ClearHistory
  \/ SetMaxHistorySize
  \/ OptimizeMemory
  \/ TimerFire

SpecHistory == Init /\ [][NextHistory]_vars

\* moving a layer, and the four operations that composite the stack
NextOffset ==
  \/ AddLayerWithImage
  \/ LayerMove
  \/ MergeDown
  \/ FlattenImage
  \/ ExportToDataURL
  \/ ExportTempCanvas

SpecOffset == Init /\ [][NextOffset]_vars

----------------------------------------------------------------------------

\* C1: the layer stack of every document is non-empty and its
\* activeLayerIndex is a valid index into it
C1_StackNonEmptyIndexValid ==
  \A d \in DOMAIN documents :
    /\ Len(documents[d].layers) >= 1
    /\ 0 <= documents[d].activeLayerIndex
    /\ documents[d].activeLayerIndex < Len(documents[d].layers)

\* C2: mergeDown of the bottom-most layer (index 0) changes nothing: the
\* layers, their order, their buffers and activeLayerIndex stay as they were,
\* and nothing is thrown
C2_MergeDownBottomNoOp ==
  [][(last'.op = "mergeDown" /\ last'.index = 0)
       => (documents' = documents /\ ~last'.error)]_vars

\* a mergeDown of the bottom-most layer of a stack of several layers has run
C2_Witness ==
  /\ last.op = "mergeDown" /\ last.index = 0
  /\ Len(ActiveDoc.layers) >= 2

LayerIdsOf(ls) == [k \in 1..Len(ls) |-> ls[k].id]

\* C3: mergeDown of the layer at index i > 0 removes exactly that layer, keeps
\* the other layers in their order (all but the lower neighbour untouched),
\* shortens the stack by one and makes the merged lower layer (i-1) active
C3_MergeDownRemovesTarget ==
  [][(last'.op = "mergeDown" /\ last'.index > 0) =>
       LET i == last'.index
           before == ActiveDoc.layers
           after == ActiveDoc'.layers
       IN  /\ Len(after) = Len(before) - 1
           /\ LayerIdsOf(after) = RemoveAt(LayerIdsOf(before), i)
           /\ \A k \in 1..Len(after) : k # i => after[k] = RemoveAt(before, i)[k]
           /\ after[i] = mergeWith(before[i], before[i + 1])
           /\ ActiveDoc'.activeLayerIndex = i - 1]_vars

\* a mergeDown of a layer above the bottom has run and left two layers
C3_Witness ==
  /\ last.op = "mergeDown" /\ last.index > 0
  /\ Len(ActiveDoc.layers) = 2

\* C4: after flattenImage the stack holds exactly one layer and
\* activeLayerIndex is 0, whatever the stack was
C4_FlattenLeavesOneLayer ==
  [][last'.op = "flattenImage"
       => (Len(ActiveDoc'.layers) = 1 /\ ActiveDoc'.activeLayerIndex = 0)]_vars

\* C5: a delete request on a stack of length 1 leaves the stack and
\* activeLayerIndex unchanged and throws nothing
C5_SoleLayerNotDeleted ==
  [][(last'.op \in {"removeLayer", "deleteActiveLayer"} /\ Len(ActiveDoc.layers) = 1)
       => (documents' = documents /\ ~last'.error)]_vars

NumBackground(ls) == Cardinality({k \in 1..Len(ls) : ls[k].isBackground})

\* C6: at most one layer of a document is the background, and no removeLayer,
\* deleteActiveLayer, duplicateLayer, reorderLayers, moveLayer or mergeDown
\* takes the background layer out of the stack
C6_BackgroundNeverRemoved ==
  [][/\ \A d \in DOMAIN documents' : NumBackground(documents'[d].layers) <= 1
     /\ (/\ last'.op \in {"removeLayer", "deleteActiveLayer", "duplicateLayer",
                          "duplicateActiveLayer", "reorderLayers", "moveLayer",
                          "mergeDown"}
         /\ NumBackground(ActiveDoc.layers) = 1)
          => NumBackground(ActiveDoc'.layers) = 1]_vars

----------------------------------------------------------------------------

\* the newest entry of the filter log
LastCall == filterLog[Len(filterLog)]

\* the buffer of the active layer
ActiveData == At(ActiveDoc.layers, ActiveDoc.activeLayerIndex).canvas.data

\* C7: applyFilter with a filter type the dispatch has no case for leaves the
\* buffer of the active layer exactly as it was and raises no error
C7_UnknownFilterKeepsBuffer ==
  [][(/\ last'.op = "applyFilter"
      /\ filterLog'[Len(filterLog')].type \notin DispatchedFilters)
       => (/\ ActiveData' = ActiveData
           /\ ActiveDoc'.layers = ActiveDoc.layers
           /\ ~last'.error)]_vars

\* applyFilter("motion-blur", {contrast: 50, blur: 2}) has run on a layer that
\* holds a pixel other than transparent black
C7_Witness ==
  /\ Len(filterLog) >= 1
  /\ last.op = "applyFilter"
  /\ LastCall.type = "motion-blur"
  /\ LastCall.options.blur.set
  /\ \E k \in 1..Len(LastCall.input.data) : LastCall.input.data[k] # 0

\* the value the dispatch is to pass for a key: the supplied one, or the
\* default when the key is missing
Supplied(o, default) == IF o.set THEN o.val ELSE default

\* C8: the dispatch passes the default (blur 5, amount 25, uniform false,
\* brightness, contrast, hue and saturation 0) exactly when the key is
\* missing, and passes a supplied value, 0 and false included, unchanged
C8_DefaultsOnlyWhenMissing ==
  \A n \in 1..Len(filterLog) :
    LET e == filterLog[n]
    IN  /\ e.type = "brightness" =>
             /\ e.arguments.brightness = Supplied(e.options.brightness, 0)
             /\ e.arguments.contrast = Supplied(e.options.contrast, 0)
        /\ e.type = "saturation" =>
             /\ e.arguments.hue = Supplied(e.options.hue, 0)
             /\ e.arguments.saturation = Supplied(e.options.saturation, 0)
        /\ e.type = "blur" => e.arguments.blur = Supplied(e.options.blur, 5)
        /\ e.type = "noise" =>
             /\ e.arguments.amount = Supplied(e.options.amount, 25)
             /\ e.arguments.uniform = Supplied(e.options.uniform, FALSE)

\* the filters C9 lists, by the name of the call that runs them
SizePreservingFilters ==
  {"brightness", "saturation", "blur", "sharpen", "emboss", "edge-detect",
   "noise", "sepia", "grayscale", "invert", "applySepia", "applyGrayscale",
   "applyInvert", "applyDustAndScratches", "applyOilPainting", "applySketch",
   "applyWatercolor", "applyVintage"}

\* C9: every filter returns an image of the width and height it was given,
\* whose data holds width * height * 4 samples, and the layer keeps its size
C9_FiltersPreserveSize ==
  \A n \in 1..Len(filterLog) :
    LET e == filterLog[n]
    IN  e.type \in SizePreservingFilters =>
          /\ e.output.width = e.input.width
          /\ e.output.height = e.input.height
          /\ Len(e.output.data) = e.input.width * e.input.height * 4
          /\ Len(ActiveData) = ActiveDoc.width * ActiveDoc.height * 4

\* a 3x3 convolution has run on an image that is wider than it is high
C9_Witness ==
  /\ Len(filterLog) >= 1
  /\ LastCall.type \in {"sharpen", "emboss", "edge-detect"}
  /\ LastCall.input.width = 2 /\ LastCall.input.height = 1
  /\ Len(LastCall.output.data) = 8

\* C10: one invert maps every R, G and B sample v to 255 - v and keeps alpha,
\* so (10, 20, 30, 255) becomes (245, 235, 225, 255); a second invert gives
\* back the buffer the first one started from
C10_InvertInvolutive ==
  /\ Len(filterLog) >= 1 =>
       /\ \A k \in 1..Len(ActiveData) :
            ActiveData[k] = IF k % 4 = 0 THEN LastCall.input.data[k]
                            ELSE 255 - LastCall.input.data[k]
       /\ SubSeq(LastCall.input.data, 1, 4) = <<10, 20, 30, 255>>
            => SubSeq(ActiveData, 1, 4) = <<245, 235, 225, 255>>
  /\ Len(filterLog) >= 2 => ActiveData = filterLog[Len(filterLog) - 1].input.data

\* two inverts have run on a buffer that starts with (10, 20, 30, 255) and holds
\* a pixel whose alpha is neither 0 nor 255
C10_Witness ==
  /\ Len(filterLog) = 2
  /\ SubSeq(filterLog[1].input.data, 1, 4) = <<10, 20, 30, 255>>
  /\ SubSeq(ActiveData, 1, 4) = <<10, 20, 30, 255>>
  /\ \E k \in 1..Len(ActiveData) : k % 4 = 0 /\ ActiveData[k] \notin {0, 255}


\* C11: grayscale sets R, G and B of every pixel to the 8-bit rounding of
\* 0.299 R + 0.587 G + 0.114 B and keeps alpha; a second grayscale leaves the
\* buffer of the first exactly as it is
C11_GrayscaleIdempotent ==
  /\ Len(filterLog) >= 1 =>
       \A k \in 1..Len(ActiveData) :
         LET in == LastCall.input.data
             i == k - ((k - 1) % 4)
             luma == 299 * in[i] + 587 * in[i + 1] + 114 * in[i + 2]
         IN  IF k % 4 = 0 THEN ActiveData[k] = in[k]
             ELSE /\ ActiveData[k] \in 0..255
                  /\ 1000 * ActiveData[k] - luma <= 500
                  /\ luma - 1000 * ActiveData[k] <= 500
  /\ Len(filterLog) >= 2 => ActiveData = LastCall.input.data

\* two grayscales have run on a pixel whose R, G and B differed
C11_Witness ==
  /\ Len(filterLog) = 2
  /\ filterLog[1].input.data[1] # filterLog[1].input.data[2]
  /\ filterLog[1].input.data[2] # filterLog[1].input.data[3]
  /\ ActiveData[1] = ActiveData[2] /\ ActiveData[2] = ActiveData[3]
  /\ ActiveData[1] \notin {0, 255}


\* C12: a Gaussian blur of radius 0 is the identity: the buffer that
\* applyFilter("blur", {blur: 0}) writes back equals, in all four channels,
\* the buffer it read
C12_BlurRadiusZeroIdentity ==
  \A n \in 1..Len(filterLog) :
    LET e == filterLog[n]
    IN  (e.type = "blur" /\ e.options.blur.set /\ e.options.blur.val = 0)
          => e.output.data = e.input.data


\* C13: a stack of one layer that is visible, has opacity 100, blend mode
\* normal and offset (0, 0), composited onto an empty canvas of its size, gives
\* that layer's buffer exactly: by exportToDataURL on the exported canvas, by
\* flattenImage in the layer the stack then holds
C13_SingleLayerCompositeExact ==
  [][(/\ last'.op \in {"exportToDataURL", "flattenImage"}
      /\ Len(ActiveDoc.layers) = 1
      /\ ActiveDoc.layers[1].visible
      /\ ActiveDoc.layers[1].opacity = 100
      /\ ActiveDoc.layers[1].blendMode = "normal"
      /\ ActiveDoc.layers[1].x = 0 /\ ActiveDoc.layers[1].y = 0
      /\ ActiveDoc.layers[1].canvas.width = ActiveDoc.width
      /\ ActiveDoc.layers[1].canvas.height = ActiveDoc.height)
       => IF last'.op = "exportToDataURL"
          THEN exported'[1] = ActiveDoc.layers[1].canvas
          ELSE /\ Len(ActiveDoc'.layers) = 1
               /\ ActiveDoc'.layers[1].canvas = ActiveDoc.layers[1].canvas]_vars

\* a stack of one half-transparent layer with opacity 100 has been exported
C13_Witness ==
  /\ last.op = "exportToDataURL"
  /\ Len(ActiveDoc.layers) = 1
  /\ ActiveDoc.layers[1].visible
  /\ ActiveDoc.layers[1].opacity = 100
  /\ ActiveDoc.layers[1].blendMode = "normal"
  /\ ActiveDoc.layers[1].canvas.data[4] \notin {0, 255}
  /\ exported[1] = ActiveDoc.layers[1].canvas

\* the context a layer is to be drawn with when only its own blendMode and
\* opacity count (normal is source-over)
OwnContext(layer) ==
  [globalAlpha |-> layer.opacity,
   globalCompositeOperation |->
     IF layer.blendMode = "normal" THEN "source-over" ELSE layer.blendMode]

\* the layers ls[k..] drawn bottom-to-top onto canvas, the invisible ones
\* skipped, each with its own context
RECURSIVE OwnComposite(_, _, _)
OwnComposite(canvas, ls, k) ==
  IF k > Len(ls) THEN canvas
  ELSE IF ls[k].visible
       THEN OwnComposite(drawImage(canvas, OwnContext(ls[k]), ls[k].canvas, 0, 0),
                         ls, k + 1)
       ELSE OwnComposite(canvas, ls, k + 1)

\* C14: flatten and export draw the layers bottom-to-top, a layer that is not
\* visible adds nothing, and every visible layer is drawn with its own
\* blendMode and its own opacity / 100, whatever the layers drawn before it had
C14_LayersDrawnWithOwnOperator ==
  [][(/\ last'.op \in {"exportToDataURL", "flattenImage"}
      /\ \A k \in 1..Len(ActiveDoc.layers) :
           ActiveDoc.layers[k].opacity \in 0..100)
       => LET own == OwnComposite(NewCanvas(ActiveDoc.width, ActiveDoc.height),
                                  ActiveDoc.layers, 1)
          IN  IF last'.op = "exportToDataURL"
              THEN exported'[1] = own
              ELSE Len(ActiveDoc.layers) >= 2 => ActiveDoc'.layers[1].canvas = own]_vars

\* C16: the opacity of every layer of every document is an integer in 0..100
C16_OpacityInRange ==
  \A d \in DOMAIN documents :
    \A k \in 1..Len(documents[d].layers) :
      documents[d].layers[k].opacity \in 0..100


\* C15: no convolution, Gaussian blur, median or oil painting reads a sample
\* outside the buffer: every tap reads a pixel with 0 <= px < width and
\* 0 <= py < height, at an index in 0..width * height * 4 - 1
C15_TapsStayInsideBuffer ==
  \A n \in 1..Len(filterLog) :
    LET e == filterLog[n]
    IN  \A read \in e.reads :
          /\ read[1] \in 0..(e.input.width - 1)
          /\ read[2] \in 0..(e.input.height - 1)
          /\ read[3] \in 0..(e.input.width * e.input.height * 4 - 1)

\* the oil painting, whose window reaches 7 pixels beyond every edge, has run
\* on a 2x2 image and has read all of its R, G and B samples
C15_Witness ==
  /\ Len(filterLog) >= 1
  /\ LastCall.type = "applyOilPainting"
  /\ LastCall.input.width = 2 /\ LastCall.input.height = 2
  /\ Cardinality(LastCall.reads) = 12


\* C17: a document asked for with a width or a height that is zero or
\* negative is rejected: no document, and so no layer and no buffer, is
\* constructed for it, with that size or with any other
C17_NonPositiveSizeRejected ==
  (/\ last.op \in {"createNewDocument", "createBtn.onclick"}
   /\ (last.width <= 0 \/ last.height <= 0))
  => ~last.constructed


\* the samples a canvas shows for a buffer: a fully transparent pixel has no
\* colour once it is drawn
Drawn(data) ==
  [k \in 1..Len(data) |->
     IF data[PixelStart(k) + 3] = 0 THEN 0 ELSE data[k]]

\* C18: a call of applyFilter that finds an active layer writes the filtered
\* buffer back, then emits layer:updated with the id of the layer, then emits
\* history:add-state, each once and in that order, so that the snapshot the
\* history records is one of the filtered buffer; a call that finds no active
\* layer does none of the three
C18_FilterThenUpdateThenHistory ==
  [][last'.op = "applyFilter" =>
       IF HasActiveDocument(documents, activeDocumentId) /\ HasActiveLayer(ActiveDoc)
       THEN LET index == ActiveDoc.activeLayerIndex
                layer == At(ActiveDoc.layers, index)
                call == filterLog'[Len(filterLog')]
            IN  /\ Len(filterLog') = Len(filterLog) + 1
                /\ call.events = <<<<"putImageData", layer.id>>,
                                   <<"layer:updated", layer.id>>,
                                   <<"history:add-state", "Apply Filter">>>>
                /\ At(ActiveDoc'.layers, index).canvas.data = call.output.data
                /\ isRecording =>
                     /\ At(history', currentIndex').name = "Apply Filter"
                     /\ At(At(history', currentIndex').layers, index).canvas.data
                          = Drawn(call.output.data)
       ELSE UNCHANGED <<documents, history, currentIndex, filterLog>>]_vars

\* a brightness filter has changed an opaque pixel of the active layer and the
\* history has recorded the changed buffer after the state of the new document
C18_Witness ==
  /\ last.op = "applyFilter"
  /\ Len(filterLog) >= 1
  /\ LastCall.type = "brightness"
  /\ Drawn(LastCall.output.data) # Drawn(LastCall.input.data)
  /\ ActiveData = LastCall.output.data
  /\ Len(history) = 2
  /\ At(history, currentIndex).name = "Apply Filter"


\* C19: applyFilter with a filter type the dispatch has no case for is silent:
\* it emits neither layer:updated nor history:add-state, and the undo history
\* is what it was before the call
C19_UnknownFilterSilent ==
  [][(/\ last'.op = "applyFilter"
      /\ Len(filterLog') = Len(filterLog) + 1
      /\ filterLog'[Len(filterLog')].type \notin DispatchedFilters)
       => (/\ \A n \in 1..Len(filterLog'[Len(filterLog')].events) :
                filterLog'[Len(filterLog')].events[n][1]
                  \notin {"layer:updated", "history:add-state"}
           /\ history' = history
           /\ currentIndex' = currentIndex)]_vars


\* the calls that end in a convolution, a Gaussian blur, a median or an oil
\* painting of the buffer they read
NeighbourhoodCalls ==
  {"sharpen", "emboss", "edge-detect", "blur", "applyWatercolor",
   "applyDustAndScratches", "applyOilPainting"}

\* the sample at position k that the neighbourhood filter of a logged call
\* computes when every tap reads the buffer the call began with
FromOriginal(call, k) ==
  LET data == call.input.data
      width == call.input.width
      height == call.input.height
  IN  IF call.type = "sharpen"
      THEN ConvolutionAt(data, width, height, SharpenKernel, 3, k)
      ELSE IF call.type = "emboss"
      THEN ConvolutionAt(data, width, height, EmbossKernel, 3, k)
      ELSE IF call.type = "edge-detect"
      THEN ConvolutionAt(data, width, height, EdgeDetectKernel, 3, k)
      ELSE IF call.type = "blur"
      THEN BlurAt(data, width, height, generateGaussianKernel(call.arguments.blur), k)
      ELSE IF call.type = "applyWatercolor"
      THEN BlurAt(data, width, height, generateGaussianKernel(3), k)
      ELSE IF call.type = "applyDustAndScratches"
      THEN MedianAt(data, width, height, 3, k)
      ELSE OilPaintingAt(data, width, height, 7, 55, k)

\* C20: the convolution, Gaussian blur, median or oil painting of the call just
\* made has computed every sample of its output from the buffer the call began
\* with, never from a sample written earlier in the pass, and the buffer of the
\* layer has been replaced by the whole output in a single write that comes
\* before layer:updated
C20_OutputFromOriginalOneWrite ==
  (Len(filterLog) >= 1 /\ LastCall.type \in NeighbourhoodCalls) =>
    /\ Len(LastCall.output.data) = Len(LastCall.input.data)
    /\ \A k \in 1..Len(LastCall.output.data) :
         LastCall.output.data[k] = FromOriginal(LastCall, k)
    /\ Cardinality({e \in 1..Len(LastCall.events) :
                      LastCall.events[e][1] = "putImageData"}) = 1
    /\ LastCall.events[1][1] = "putImageData"
    /\ ActiveData = LastCall.output.data

\* an edge detection has run on an image two pixels wide on which a pass that
\* read the samples it had already written would have given another output
C20_Witness ==
  /\ Len(filterLog) >= 1
  /\ LastCall.type = "edge-detect"
  /\ LastCall.input.width = 2
  /\ LastCall.output.data # LastCall.input.data
  /\ LastCall.output.data
       # ConvolveInPlace(LastCall.input.data, LastCall.input.width,
                         LastCall.input.height, EdgeDetectKernel, 3, 1)
  /\ ActiveData = LastCall.output.data


\* C21: flatten, both exports and merge-down composite by one rule, every
\* visible layer drawn at its offset: flattenImage leaves the image that
\* createTempCanvas gives for the stack, exportToDataURL and createTempCanvas
\* give the same image, and mergeWith draws a visible upper layer as
\* createTempCanvas would draw it over the lower one
C21_OneCompositeRule ==
  [][/\ (last'.op = "flattenImage" /\ Len(ActiveDoc.layers) > 1)
          => ActiveDoc'.layers[1].canvas = createTempCanvas(ActiveDoc)
     /\ last'.op \in {"exportToDataURL", "createTempCanvas"}
          => /\ exported'[1] = createTempCanvas(ActiveDoc)
             /\ exported'[1] = exportToDataURL(ActiveDoc)
     /\ (/\ last'.op = "mergeDown"
         /\ last'.index > 0
         /\ At(ActiveDoc.layers, last'.index).visible)
          => At(ActiveDoc'.layers, last'.index - 1).canvas
               = TempCanvasDraw(At(ActiveDoc.layers, last'.index - 1).canvas,
                                DefaultContext,
                                <<At(ActiveDoc.layers, last'.index)>>, 1)]_vars


\* max + min of the colour of the pixel that starts at position i of data:
\* twice its lightness, in 255ths
Lightness2(data, i) ==
  Max(data[i], Max(data[i + 1], data[i + 2]))
    + Min(data[i], Min(data[i + 1], data[i + 2]))

\* C22: in the hue/saturation transform the shifted hue of every pixel lies in
\* [0, 1), so its sector is one of 0..5, and the output pixel has the lightness
\* of the input pixel (to the rounding of the 8-bit samples)
C22_HueWrapsLightnessKept ==
  (Len(filterLog) >= 1 /\ LastCall.type = "saturation") =>
    \A k \in 1..Len(LastCall.input.data) :
      Channel(k) = 0 =>
        /\ HueSector(LastCall.input.data[k], LastCall.input.data[k + 1],
                     LastCall.input.data[k + 2], LastCall.arguments.hue) \in 0..5
        /\ Abs(Lightness2(LastCall.output.data, k)
                 - Lightness2(LastCall.input.data, k)) <= 1


\* C23: reorderLayers keeps the layers it was given, puts the dragged layer at
\* the index the target layer had with the others in their order, and keeps
\* the same layer active, wherever the dragged, target and active layers are
C23_ReorderKeepsActiveLayer ==
  [][(last'.op = "reorderLayers" /\ HasActiveDocument(documents, activeDocumentId)) =>
       LET before == ActiveDoc.layers
           after == ActiveDoc'.layers
       IN  /\ Len(after) = Len(before)
           /\ {after[n] : n \in 1..Len(after)} = {before[n] : n \in 1..Len(before)}
           /\ after # before =>
                \E draggedIndex \in 0..(Len(before) - 1) :
                  /\ draggedIndex # last'.index
                  /\ At(after, last'.index) = At(before, draggedIndex)
                  /\ RemoveAt(after, last'.index) = RemoveAt(before, draggedIndex)
           /\ HasActiveLayer(ActiveDoc) =>
                /\ HasActiveLayer(ActiveDoc')
                /\ At(after, ActiveDoc'.activeLayerIndex)
                     = At(before, ActiveDoc.activeLayerIndex)]_vars

\* a layer that is not the active one has been dragged across it in a stack of
\* three: the recorded state before the reorder has the active layer at
\* another index, and the dragged layer is now where the target was
C23_Witness ==
  /\ last.op = "reorderLayers"
  /\ Len(ActiveDoc.layers) = 3
  /\ currentIndex > 0
  /\ At(history, currentIndex).name = "Reorder Layers"
  /\ At(history, currentIndex - 1).activeLayerIndex # ActiveDoc.activeLayerIndex
  /\ ActiveDoc.activeLayerIndex # last.index
  /\ HasActiveLayer(ActiveDoc)


\* C24: after an addState that records (recording is on and a document is
\* active), the new state is the last of the history and is the current one,
\* its name is the one given, the states before it are those up to the
\* previous currentIndex (less the oldest, at the size limit), so that every
\* state after the previous currentIndex is gone, and canRedo() is false
C24_AddStateMakesLastCurrent ==
  [][(/\ last'.op \in {"addState", "addLayer"}
      /\ isRecording
      /\ HasActiveDocument(documents, activeDocumentId)) =>
       /\ Len(history') >= 1
       /\ currentIndex' = Len(history') - 1
       /\ At(history', currentIndex').name
            = (IF last'.op = "addState" THEN "Brush Stroke" ELSE "Add Layer")
       /\ At(history', currentIndex').layers = cloneLayers(ActiveDoc'.layers)
       /\ LET kept == Slice0(history, currentIndex + 1)
              older == SubSeq(history', 1, Len(history') - 1)
          IN  older = kept \/ (kept # <<>> /\ older = Tail(kept))
       /\ ~canRedo([history |-> history', currentIndex |-> currentIndex'])]_vars

\* a stroke has been recorded after an undo had left a state to redo: that
\* state is gone, and the stroke is the last and current state
C24_Witness ==
  /\ last.op = "addState"
  /\ isRecording
  /\ opCount >= 4
  /\ Len(history) = 2
  /\ currentIndex = 1
  /\ history[1].name = "Create Document"
  /\ history[2].name = "Brush Stroke"
  /\ Len(ActiveDoc.layers) = 1


\* C25: the history is never longer than maxHistorySize, setMaxHistorySize(n)
\* sets the limit to max(1, n), and when it trims the history the oldest
\* states go first and the state that was current stays the current one
C25_HistoryBoundedCurrentKept ==
  [][/\ Len(history') <= maxHistorySize'
     /\ last'.op = "setMaxHistorySize" =>
          /\ maxHistorySize' = Max(1, last'.index)
          /\ Len(history') = Min(Len(history), maxHistorySize')
          /\ history' = SubSeq(history, Len(history) - Len(history') + 1,
                               Len(history))
          /\ (currentIndex >= 0 /\ currentIndex < Len(history)) =>
               /\ currentIndex' >= 0 /\ currentIndex' < Len(history')
               /\ At(history', currentIndex') = At(history, currentIndex)]_vars


\* C26: after any operation of the history, currentIndex is -1 when the
\* history is empty and an index of the history otherwise; undo and redo keep
\* it so, and change nothing when canUndo() or canRedo() is false
C26_CurrentIndexInRange ==
  [][/\ IF history' = <<>> THEN currentIndex' = -1
        ELSE currentIndex' >= 0 /\ currentIndex' < Len(history')
     /\ (last'.op = "undo" /\ ~canUndo(H)) =>
          UNCHANGED <<documents, history, currentIndex, isRecording>>
     /\ (last'.op = "redo" /\ ~canRedo(H)) =>
          UNCHANGED <<documents, history, currentIndex, isRecording>>]_vars


----------------------------------------------------------------------------
(* The first recorded operation on a document made by createNewDocument *)

\* the application after construction, documents being opened with
\* createNewDocument (File > New) and edited through the layer panel
NextNewDocument ==
  \/ CreateNewDocument
  \/ AddLayer
  \/ DuplicateActiveLayer
  \/ Undo
  \/ TimerFire

\* the application with no document, or with the one document that a first
\* File > New (createNewDocument, which records no state) has opened
InitNewDocument ==
  \/ InitCreate
  \/ \E size \in {<<1, 1>>, <<2, 1>>}, background \in {"white", "transparent"} :
       /\ documents = [d \in {1} |-> NewDocument(size[1], size[2], background)]
       /\ activeDocumentId = 1
       /\ history = <<>>
       /\ currentIndex = -1
       /\ maxHistorySize = MaxHistory
       /\ isRecording = TRUE
       /\ pendingTimers = 0
       /\ last = [op |-> "createNewDocument", index |-> -1, error |-> FALSE,
                  width |-> size[1], height |-> size[2],
                  constructed |-> TRUE, modal |-> FALSE]
       /\ opCount = 0
       /\ filterLog = <<>>
       /\ exported = <<>>
       /\ batchName = <<>>
       /\ events = NoListeners

SpecNewDocument == InitNewDocument /\ [][NextNewDocument]_vars

\* the layer operations of NextNewDocument that record a state
RecordedLayerOps == {"addLayer", "duplicateActiveLayer"}

\* C27: after a recorded mutating operation on the active document, the first
\* one after its creation included, canUndo() is true and one undo (which
\* restores the state before the current one) gives the document the layers
\* and the activeLayerIndex it had immediately before the operation
C27_FirstOperationUndoable ==
  [][(/\ last'.op \in RecordedLayerOps
      /\ ~last'.error
      /\ isRecording)
     => /\ canUndo([history |-> history', currentIndex |-> currentIndex'])
        /\ LET restored ==
                 restoreDocumentState(documents', activeDocumentId,
                                      At(history', currentIndex' - 1))[activeDocumentId]
           IN  /\ restored.layers = cloneLayers(ActiveDoc.layers)
               /\ restored.activeLayerIndex = ActiveDoc.activeLayerIndex]_vars


----------------------------------------------------------------------------
(* Several documents and the one history *)

\* PixelForge.setActiveDocument(documentId), on document:set-active: an
\* unknown id changes nothing; the history is not touched
SetActiveDocument ==
  /\ MoreOps
  /\ \E documentId \in 1..MaxDocuments :
       /\ activeDocumentId' = IF documentId \in DOMAIN documents
                              THEN documentId ELSE activeDocumentId
       /\ Did("setActiveDocument", documentId, FALSE)
  /\ UNCHANGED <<documents, history, currentIndex, maxHistorySize, isRecording,
                 pendingTimers, filterLog, exported, batchName, events>>

\* a first document made by createDocument, further ones opened with
\* createNewDocument, tabs clicked, layers added and the history walked
NextDocuments ==
  \/ CreateNewDocument
  \/ SetActiveDocument
  \/ AddLayer
  \/ Undo
  \/ Redo
  \/ JumpToState
  \/ TimerFire

SpecDocuments == Init /\ [][NextDocuments]_vars

\* the operations that hand a state of the history to restoreState
RestoringOps == {"undo", "redo", "jumpToState"}

\* C28: undo, redo and jumpToState write into the active document only
\* states recorded from that document.  No operation of SpecDocuments resizes
\* a document, so a state recorded from the active document has the active
\* document's width and height; a restored state with another size was
\* recorded from another document.
C28_OnlyOwnStatesRestored ==
  [][(/\ last'.op \in RestoringOps
      /\ pendingTimers' = pendingTimers + 1
      /\ HasActiveDocument(documents, activeDocumentId))
     => LET state == At(history, currentIndex')
        IN  /\ state.canvasWidth = ActiveDoc.width
            /\ state.canvasHeight = ActiveDoc.height]_vars


----------------------------------------------------------------------------
(* HistoryManager: batches *)

\* the names given to startBatch
BatchNames == {"Batch", ""}

\* HistoryManager.startBatch(name): pauseRecording(), then the name is kept
StartBatch ==
  /\ MoreOps
  /\ \E name \in BatchNames :
       /\ isRecording' = FALSE
       /\ batchName' = <<name>>
  /\ Did("startBatch", -1, FALSE)
  /\ UNCHANGED <<documents, activeDocumentId, history, currentIndex,
                 maxHistorySize, pendingTimers, filterLog, exported, events>>

\* HistoryManager.endBatch(): with a truthy _batchName, resumeRecording(),
\* addState(_batchName) and the name is forgotten; otherwise nothing
EndBatch ==
  /\ MoreOps
  /\ IF batchName # <<>> /\ batchName[1] # ""
     THEN /\ isRecording' = TRUE
          /\ SetHistory(addState(H, TRUE, maxHistorySize, documents,
                                 activeDocumentId, batchName[1]))
          /\ batchName' = <<>>
     ELSE UNCHANGED <<isRecording, history, currentIndex, batchName>>
  /\ Did("endBatch", -1, FALSE)
  /\ UNCHANGED <<documents, activeDocumentId, maxHistorySize, pendingTimers,
                 filterLog, exported, events>>

\* the history:add-state listener: addState(name) if isRecording
AddStateRequested ==
  /\ MoreOps
  /\ IF isRecording
     THEN SetHistory(addState(H, isRecording, maxHistorySize, documents,
                              activeDocumentId, "Custom"))
     ELSE UNCHANGED <<history, currentIndex>>
  /\ Did("history:add-state", -1, FALSE)
  /\ UNCHANGED <<documents, activeDocumentId, maxHistorySize, isRecording,
                 pendingTimers, filterLog, exported, batchName, events>>

\* the application with its first document, untouched or after one layer:add
InitBatch ==
  \/ Init
  \/ \E background \in {"white", "transparent"} :
       LET doc0 == NewDocument(1, 1, background)
           h0 == addState([history |-> <<>>, currentIndex |-> -1], TRUE,
                          MaxHistory, [d \in {1} |-> doc0], 1, "Create Document")
           doc1 == DocAddLayer(doc0, NewLayer(generateId(doc0.layers), 1, 1, FALSE))
           h1 == addState(h0, TRUE, MaxHistory, [d \in {1} |-> doc1], 1, "Add Layer")
       IN  /\ documents = [d \in {1} |-> doc1]
           /\ activeDocumentId = 1
           /\ history = h1.history
           /\ currentIndex = h1.currentIndex
           /\ maxHistorySize = MaxHistory
           /\ isRecording = TRUE
           /\ pendingTimers = 0
           /\ last = [op |-> "addLayer", index |-> 1, error |-> FALSE]
           /\ opCount = 0
           /\ filterLog = <<>>
           /\ exported = <<>>
           /\ batchName = <<>>
           /\ events = NoListeners

NextBatch ==
  \/ StartBatch
  \/ EndBatch
  \/ AddStateRequested
  \/ AddLayer
  \/ Undo
  \/ Redo
  \/ TimerFire

SpecBatch == InitBatch /\ [][NextBatch]_vars

\* C29: between startBatch(name) and the matching endBatch() no step adds a
\* state to the history, whatever is interleaved, and endBatch adds exactly
\* one state, named name, which becomes the last and the current one (stated
\* for the non-empty names)
C29_BatchAddsOneState ==
  [][(batchName # <<>> /\ batchName[1] # "")
     => IF last'.op = "endBatch"
        THEN /\ history' # history
             /\ currentIndex' = Len(history') - 1
             /\ At(history', currentIndex').name = batchName[1]
        ELSE history' = history]_vars


----------------------------------------------------------------------------
(* EventBus: on, once, off and emit *)

MaxListeners == 3

\* the functions given to on and once; function fn, when called, calls
\* off(event, fn's target), or nothing when it has no target
Functions == 1..MaxListeners
NoTarget == 0

\* an element of events.get(event): the function itself after on(event, fn),
\* the wrapper onceCallback of fn after once(event, fn)
Callback(fn, target, wrapper) == [fn |-> fn, target |-> target, once |-> wrapper]

\* callbacks.indexOf(callback)
indexOf(callbacks, callback) ==
  IF \E k \in 1..Len(callbacks) : callbacks[k] = callback
  THEN (CHOOSE k \in 1..Len(callbacks) :
          /\ callbacks[k] = callback
          /\ \A j \in 1..(k - 1) : callbacks[j] # callback) - 1
  ELSE -1

\* EventBus.off(event, callback) on the array of the event
off(callbacks, callback) ==
  LET index == indexOf(callbacks, callback)
  IN  IF index > -1 THEN RemoveAt(callbacks, index) ELSE callbacks

\* the callback that off(event, fn) looks for: the function fn as on
\* registered it (a wrapper made by once is never equal to it)
Registered(callbacks, fn) ==
  IF \E k \in 1..Len(callbacks) : callbacks[k].fn = fn /\ ~callbacks[k].once
  THEN callbacks[CHOOSE k \in 1..Len(callbacks) :
                   /\ callbacks[k].fn = fn /\ ~callbacks[k].once
                   /\ \A j \in 1..(k - 1) :
                        ~(callbacks[j].fn = fn /\ ~callbacks[j].once)]
  ELSE Callback(fn, NoTarget, FALSE)

\* one call of a callback: the function runs (and calls off for its target),
\* then a wrapper made by once removes itself
Invoke(callbacks, callback) ==
  LET ran == IF callback.target = NoTarget THEN callbacks
             ELSE off(callbacks, Registered(callbacks, callback.target))
  IN  IF callback.once THEN off(ran, callback) ELSE ran

\* callbacks.forEach(callback => callback(...args)): the indexes below the
\* length the array had at the start are visited in order, each read from
\* the array as it is then; an index the array no longer has is passed over
RECURSIVE forEach(_, _, _, _)
forEach(callbacks, k, len, invoked) ==
  IF k >= len THEN [callbacks |-> callbacks, invoked |-> invoked]
  ELSE IF k >= Len(callbacks) THEN forEach(callbacks, k + 1, len, invoked)
  ELSE LET callback == At(callbacks, k)
       IN  forEach(Invoke(callbacks, callback), k + 1, len,
                   Append(invoked, callback.fn))

\* EventBus.emit(event, ...args)
emit(callbacks) == forEach(callbacks, 0, Len(callbacks), <<>>)

\* the functions of an array of callbacks, in the order of the array
FunctionsOf(callbacks) == [k \in 1..Len(callbacks) |-> callbacks[k].fn]

\* a function is registered for an event at most once at a time
IsRegistered(callbacks, fn) == \E k \in 1..Len(callbacks) : callbacks[k].fn = fn

DidBus(op, event, registered, invoked) ==
  /\ MoreOps
  /\ opCount' = opCount + 1
  /\ last' = [op |-> op, index |-> -1, error |-> FALSE, event |-> event,
              registered |-> registered, invoked |-> invoked]
  /\ UNCHANGED <<documents, activeDocumentId, history, currentIndex,
                 maxHistorySize, isRecording, pendingTimers, filterLog,
                 exported, batchName>>

\* EventBus.on(event, callback)
On ==
  \E event \in EventNames, fn \in Functions, target \in {NoTarget} \cup Functions :
    /\ Len(events[event]) < MaxListeners
    /\ ~IsRegistered(events[event], fn)
    /\ events' = [events EXCEPT ![event] = Append(@, Callback(fn, target, FALSE))]
    /\ DidBus("on", event, FunctionsOf(events[event]), <<>>)

\* EventBus.once(event, callback): on(event, onceCallback)
Once ==
  \E event \in EventNames, fn \in Functions, target \in {NoTarget} \cup Functions :
    /\ Len(events[event]) < MaxListeners
    /\ ~IsRegistered(events[event], fn)
    /\ events' = [events EXCEPT ![event] = Append(@, Callback(fn, target, TRUE))]
    /\ DidBus("once", event, FunctionsOf(events[event]), <<>>)

\* EventBus.off(event, callback) called from outside a dispatch
Off ==
  \E event \in EventNames, fn \in Functions :
    /\ events' = [events EXCEPT ![event] = off(@, Registered(@, fn))]
    /\ DidBus("off", event, FunctionsOf(events[event]), <<>>)

\* EventBus.emit(event, ...args) with the calls of the listeners it makes
Emit ==
  \E event \in EventNames :
    LET result == emit(events[event])
    IN  /\ events' = [events EXCEPT ![event] = result.callbacks]
        /\ DidBus("emit", event, FunctionsOf(events[event]), result.invoked)

NextEventBus ==
  \/ On
  \/ Once
  \/ Off
  \/ Emit

SpecEventBus == InitCreate /\ [][NextEventBus]_vars

\* C30: emit(event) calls every listener registered for the event when emit
\* is called, once each and in registration order, also when listeners are
\* removed during the dispatch
C30_EmitCallsEveryListener ==
  [][last'.op = "emit" => last'.invoked = last'.registered]_vars

====
